---- MODULE Spec2Model ----
(***************************************************************************)
(* A model of the gphotos Takeout organizer: the scanner, the dedup engine  *)
(* (BuildRegistry, GroupIdentical, MergeIdentical), date resolution, album *)
(* assignment and the concurrent output stage (OrganizePhotos).            *)
(*                                                                         *)
(* SpecOrganize: calls of OrganizePhotos on lists of records.              *)
(* SpecDedup:    runs of main from the scan to the merge, twice.           *)
(* SpecMerge:    calls of MergeIdentical on lists of records.              *)
(* SpecPipeline: one run of main from the scan to the output.              *)
(* SpecDates:    dates-only runs of main, with custom patterns.            *)
(* SpecAlbums:   the album selection and AssignFinalAlbums on any list.    *)
(* SpecScan:     scans of trees with the wrapper and container folders.    *)
(* SpecTool:     one batch of metadata given to the external tool.         *)
(*                                                                         *)
(* File names, hashes and album names are sequences of one-character       *)
(* strings, so that formatting (suffixes, extensions, trimming) is         *)
(* computed the way the Go code computes it.                               *)
(***************************************************************************)
EXTENDS FiniteSets, Integers, Sequences, TLC

\* ------------------------------------------------------------------ bounds
MaxPhotos == 5
MaxWorkers == 2
MaxBatch == 2

\* ------------------------------------------------------- program constants
JobsPerWorker == 2
MetaPerWorker == 4
HashPartLen == 8
SuffixLimit == 10000

NoErr == <<>>

NoPath == [dir |-> <<>>, name |-> <<>>]

\* ------------------------------------------------------------ string helpers
Max(a, b) == IF a > b THEN a ELSE b

HasSuffix(s, suf) ==
    /\ Len(suf) <= Len(s)
    /\ SubSeq(s, Len(s) - Len(suf) + 1, Len(s)) = suf

TrimSuffix(s, suf) ==
    IF HasSuffix(s, suf) THEN SubSeq(s, 1, Len(s) - Len(suf)) ELSE s

\* the characters of the names, in byte order
Alphabet ==
    <<" ", "-", ".", "/", "0", "1", "2", "3", "4", "5", "6", "7", "8", "9", ":",
      "A", "B", "C", "D", "E", "F", "G", "H", "I", "J", "K", "L", "M", "N",
      "O", "P", "Q", "R", "S", "T", "U", "V", "W", "X", "Y", "Z", "_",
      "a", "b", "c", "d", "e", "f", "g", "h", "i", "j", "k", "l", "m", "n",
      "o", "p", "q", "r", "s", "t", "u", "v", "w", "x", "y", "z", "~">>

charRank(c) == CHOOSE i \in 1..Len(Alphabet) : Alphabet[i] = c

lowerChar(c) ==
    IF charRank(c) >= charRank("A") /\ charRank(c) <= charRank("Z")
    THEN Alphabet[charRank(c) + charRank("a") - charRank("A")]
    ELSE c

ToLower(s) == [i \in 1..Len(s) |-> lowerChar(s[i])]

RECURSIVE lastDot(_, _)
lastDot(s, i) ==
    IF i = 0 THEN 0
    ELSE IF s[i] = "." THEN i
    ELSE lastDot(s, i - 1)

\* filepath.Ext: the suffix starting at the last dot of the name
Ext(s) ==
    LET d == lastDot(s, Len(s))
    IN IF d = 0 THEN <<>> ELSE SubSeq(s, d, Len(s))

RECURSIVE trimLeft(_)
trimLeft(s) ==
    IF s # <<>> /\ Head(s) = " " THEN trimLeft(Tail(s)) ELSE s

RECURSIVE trimRight(_)
trimRight(s) ==
    IF s # <<>> /\ s[Len(s)] = " " THEN trimRight(SubSeq(s, 1, Len(s) - 1)) ELSE s

TrimSpace(s) == trimRight(trimLeft(s))

digitChar(d) ==
    CASE d = 0 -> "0" [] d = 1 -> "1" [] d = 2 -> "2" [] d = 3 -> "3"
      [] d = 4 -> "4" [] d = 5 -> "5" [] d = 6 -> "6" [] d = 7 -> "7"
      [] d = 8 -> "8" [] d = 9 -> "9"

\* fmt's %d of a positive integer
RECURSIVE Itoa(_)
Itoa(n) ==
    IF n < 10 THEN <<digitChar(n)>>
    ELSE Itoa(n \div 10) \o <<digitChar(n % 10)>>

\* --------------------------------------------------------- output: naming
\* sanitizeFolder of an album name
sanitizeFolder(name) ==
    LET t == TrimSpace(name)
        r == [i \in 1..Len(t) |-> IF t[i] = "/" THEN "_" ELSE t[i]]
    IN IF r = <<>> THEN <<"U", "n", "t", "i", "t", "l", "e", "d">> ELSE r

PreferredExtension(kind) ==
    CASE kind = "jpeg" -> <<".", "j", "p", "g">>
      [] kind = "png" -> <<".", "p", "n", "g">>
      [] kind = "heic" -> <<".", "h", "e", "i", "c">>
      [] kind = "webp" -> <<".", "w", "e", "b", "p">>
      [] OTHER -> <<>>

\* the destination file name of a record (extension normalised by sniffing)
destBase(p) ==
    LET base == p.Base
        ext == ToLower(Ext(base))
        pref == PreferredExtension(p.Kind)
    IN IF pref # <<>> /\ pref # ext THEN TrimSuffix(base, ext) \o pref ELSE base

\* the destination directory of a record
destDir(p) ==
    IF TrimSpace(p.FinalAlbum) # <<>>
    THEN <<"Albums", sanitizeFolder(p.FinalAlbum)>>
    ELSE <<"Library">>

hashPartOf(hash) ==
    IF Len(hash) > HashPartLen THEN SubSeq(hash, 1, HashPartLen) ELSE hash

RECURSIVE numericPath(_, _, _, _, _)
numericPath(existing, dir, name, ext, i) ==
    IF i >= SuffixLimit THEN [ok |-> FALSE, path |-> NoPath]
    ELSE LET path == [dir |-> dir, name |-> name \o <<"-">> \o Itoa(i) \o ext]
         IN IF path \notin existing THEN [ok |-> TRUE, path |-> path]
            ELSE numericPath(existing, dir, name, ext, i + 1)

\* uniquePath without the hash step: a taken name gets a numeric suffix
uniquePathNoHash(existing, dir, filename, hash, statErr) ==
    LET path == [dir |-> dir, name |-> filename]
        ext == Ext(filename)
    IN IF statErr THEN [ok |-> FALSE, path |-> NoPath]
       ELSE IF path \notin existing THEN [ok |-> TRUE, path |-> path]
       ELSE numericPath(existing, dir, TrimSuffix(filename, ext), ext, 1)

\* uniquePath: original name, else hash suffix, else numeric suffix.
\* statErr: some os.Stat call fails with an error other than not-exist.
uniquePath(existing, dir, filename, hash, statErr) ==
    LET path == [dir |-> dir, name |-> filename]
        ext == Ext(filename)
        name == TrimSuffix(filename, ext)
        hashPart == hashPartOf(hash)
        hpath == [dir |-> dir, name |-> name \o <<"-">> \o hashPart \o ext]
    IN IF statErr THEN [ok |-> FALSE, path |-> NoPath]
       ELSE IF path \notin existing THEN [ok |-> TRUE, path |-> path]
       ELSE IF hashPart # <<>> /\ hpath \notin existing THEN [ok |-> TRUE, path |-> hpath]
       ELSE numericPath(existing, dir, name, ext, 1)

\* --------------------------------------------------------- output: inputs
hashOfIndex(i) ==
    [k \in 1..(HashPartLen + 1) |-> IF k <= HashPartLen THEN digitChar(i % 2) ELSE digitChar(i % 10)]

\* Records that all go to Library under the same name: every name collides.
poolSame(i) ==
    [SrcPath |-> <<"src", i>>, Base |-> <<"a", ".", "j", "p", "g">>, Hash |-> hashOfIndex(i),
     FinalAlbum |-> <<>>, Kind |-> "jpeg", Writable |-> (i % 2 = 1)]

\* Mixed records: albums, a wrong extension, a record without hash, a record
\* without source path.
poolMixed(i) ==
    CASE i % 4 = 1 ->
           [SrcPath |-> <<"src", i>>, Base |-> <<"a", ".", "j", "p", "g">>, Hash |-> hashOfIndex(i),
            FinalAlbum |-> <<"T", "r", "i", "p">>, Kind |-> "", Writable |-> TRUE]
      [] i % 4 = 2 ->
           [SrcPath |-> <<"src", i>>, Base |-> <<"a", ".", "P", "N", "G">>, Hash |-> <<>>,
            FinalAlbum |-> <<" ">>, Kind |-> "jpeg", Writable |-> FALSE]
      [] i % 4 = 3 ->
           [SrcPath |-> <<>>, Base |-> <<>>, Hash |-> <<>>,
            FinalAlbum |-> <<>>, Kind |-> "", Writable |-> FALSE]
      [] OTHER ->
           [SrcPath |-> <<"src", i>>, Base |-> <<"a", ".", "j", "p", "g">>, Hash |-> hashOfIndex(i),
            FinalAlbum |-> <<"T", "r", "i", "p", " ">>, Kind |-> "jpeg", Writable |-> TRUE]

\* The calls considered: a list of records and the output tree it meets.
OrgInputs ==
    {[photos |-> [i \in 1..n |-> poolSame(i)], tree |-> {}] : n \in 0..MaxPhotos}
        \cup {[photos |-> [i \in 1..n |-> poolMixed(i)],
               tree |-> {[dir |-> <<"Library">>, name |-> <<"a", ".", "j", "p", "g">>]}] :
                 n \in 1..MaxPhotos}

\* ----------------------------------------------------------------- state
VARIABLES
    photos,      \* OrganizePhotos: the records to write
    cfg,         \* OrganizePhotos: dryRun, workers, exifBatch, tool, outRoot
    outFiles,    \* output tree: the paths of existing files
    outDirs,     \* output tree: the directories created by this run
    copies,      \* pairs <<path, record index>>: os.Create of path for the record
    jobs,        \* the work queue (record indexes)
    jobsClosed,
    metaCh,      \* the handoff queue to the metadata stage
    metaClosed,
    cancelled,   \* ctx.Done()
    firstErr,
    mainPc,      \* position of the caller's goroutine
    mi,          \* index of the record the intake loop is at
    result,      \* the error OrganizePhotos returned
    wpc,         \* position of each worker
    wcur,        \* the record each worker holds
    wdst,        \* the destination path each worker obtained
    metaPc,      \* position of the metadata goroutine
    batch,       \* the metadata batch being accumulated
    writes,      \* the batches handed to the external tool
    planned,     \* dry run: the destination reported for each record
    dk,          \* source tree: the media files (path, content, mtime, state)
    pairs,       \* the scanner's pairs, in scan order
    cacheFile,   \* the hash cache file on disk
    cache,       \* BuildRegistry: the cache in memory
    registry,    \* BuildRegistry: key -> record
    pairKey,     \* the key each processed pair was registered under
    idx,         \* BuildRegistry: index of the pair the loop is at
    dphase,      \* position in BuildRegistry
    run,         \* number of the current run
    hashed,      \* paths whose content hash HashFile computed in this run
    firstRun,    \* what the first run saw and produced
    heap,        \* MergeIdentical: the photos slice (the records pointed to)
    heap0,       \* the records as they were when MergeIdentical was called
    mgroups,     \* the groups GroupIdentical returned
    mresult,     \* MergeIdentical: indexes of the records returned
    mphase,      \* position of main around the dates, the merge and the albums
    selected,    \* the albums the operator selected, in priority order
    custom,      \* applyDatesWithReview: the custom patterns, in order
    exclusions,  \* applyDatesWithReview: the excluded base names
    proposals,   \* applyDatesWithReview: the proposal for each record
    dateStore,   \* .gphotos/date_patterns.json and date_exclusions.json
    toolRun      \* one batch of metadata and what the external tool did with it

orgVars ==
    <<photos, cfg, outFiles, outDirs, copies, jobs, jobsClosed, metaCh, metaClosed,
      cancelled, firstErr, mainPc, mi, result, wpc, wcur, wdst, metaPc, batch,
      writes, planned>>

dedupVars ==
    <<dk, pairs, cacheFile, cache, registry, pairKey, idx, dphase, run, hashed,
      firstRun, heap, heap0, mgroups, mresult, mphase, selected>>

dateVars == <<custom, exclusions, proposals, dateStore>>

toolVars == <<toolRun>>

vars == <<orgVars, dedupVars, dateVars, toolVars>>

\* ------------------------------------------------- output: OrganizePhotos
Workers == DOMAIN wpc
jobsCap == cfg.workers * JobsPerWorker
metaCap == cfg.workers * MetaPerWorker

NilMap == [nil |-> TRUE, files |-> <<>>]

EmptyMap == [nil |-> FALSE, files |-> <<>>]

DedupIdle ==
    /\ dk = <<>>
    /\ pairs = <<>>
    /\ cacheFile = [state |-> "nopath", files |-> <<>>]
    /\ cache = EmptyMap
    /\ registry = <<>>
    /\ pairKey = <<>>
    /\ idx = 1
    /\ dphase = "idle"
    /\ run = 0
    /\ hashed = {}
    /\ firstRun = [done |-> FALSE]

MergeIdle ==
    /\ heap = <<>>
    /\ heap0 = <<>>
    /\ mgroups = {}
    /\ mresult = {}
    /\ mphase = "idle"
    /\ selected = <<>>

ToolIdle == toolRun = [call |-> "none", batch |-> <<>>]

DateIdle ==
    /\ custom = <<>>
    /\ exclusions = {}
    /\ proposals = <<>>
    /\ dateStore = [pstate |-> "absent", plist |-> <<>>, xstate |-> "absent", xlist |-> {}]

OrgIdle ==
    /\ photos = <<>>
    /\ cfg = [dryRun |-> FALSE, workers |-> 1, exifBatch |-> 1, tool |-> FALSE, outRoot |-> ""]
    /\ outFiles = {}
    /\ outDirs = {}
    /\ copies = {}
    /\ jobs = <<>>
    /\ jobsClosed = FALSE
    /\ metaCh = <<>>
    /\ metaClosed = FALSE
    /\ cancelled = FALSE
    /\ firstErr = NoErr
    /\ mainPc = "idle"
    /\ mi = 1
    /\ result = NoErr
    /\ wpc = [w \in {} |-> "done"]
    /\ wcur = [w \in {} |-> 0]
    /\ wdst = [w \in {} |-> NoPath]
    /\ metaPc = "none"
    /\ batch = <<>>
    /\ writes = <<>>
    /\ planned = <<>>

\* A call of OrganizePhotos: arguments and the output tree it finds.
OrgInit ==
    /\ \E in \in OrgInputs :
         /\ photos = in.photos
         /\ outFiles = in.tree
    /\ \E dry \in BOOLEAN, tool \in BOOLEAN, wk \in 0..MaxWorkers, eb \in 0..MaxBatch,
          root \in {"", "out"} :
         cfg = [dryRun |-> dry, workers |-> Max(wk, 1), exifBatch |-> Max(eb, 1),
                tool |-> tool, outRoot |-> root]
    /\ outDirs = {}
    /\ copies = {}
    /\ jobs = <<>>
    /\ jobsClosed = FALSE
    /\ metaCh = <<>>
    /\ metaClosed = FALSE
    /\ cancelled = FALSE
    /\ firstErr = NoErr
    /\ mainPc = "start"
    /\ mi = 1
    /\ result = NoErr
    /\ wpc = [w \in 1..cfg.workers |-> "idle"]
    /\ wcur = [w \in 1..cfg.workers |-> 0]
    /\ wdst = [w \in 1..cfg.workers |-> NoPath]
    /\ metaPc = "none"
    /\ batch = <<>>
    /\ writes = <<>>
    /\ planned = [i \in 1..Len(photos) |-> NoPath]
    /\ DedupIdle
    /\ MergeIdle
    /\ DateIdle
    /\ ToolIdle

\* the top directories are created in a dry run too
OrgStartMkdirAlways ==
    /\ mainPc = "start"
    /\ \E mkdirOk \in BOOLEAN :
         IF cfg.outRoot = ""
         THEN /\ mainPc' = "returned"
              /\ result' = <<"emptyRoot">>
              /\ UNCHANGED <<outDirs, wpc, metaPc>>
         ELSE IF ~mkdirOk
         THEN /\ mainPc' = "returned"
              /\ result' = <<"mkdirTop">>
              /\ UNCHANGED <<outDirs, wpc, metaPc>>
         ELSE /\ mainPc' = "intake"
              /\ result' = result
              /\ outDirs' = outDirs \cup {<<"Library">>, <<"Albums">>}
              /\ wpc' = [w \in Workers |-> "select"]
              /\ metaPc' = IF ~cfg.dryRun /\ cfg.tool THEN "start" ELSE "none"
    /\ UNCHANGED <<photos, cfg, outFiles, copies, jobs, jobsClosed, metaCh, metaClosed,
                   cancelled, firstErr, mi, wcur, wdst, batch, writes, planned>>
    /\ UNCHANGED <<dedupVars, dateVars, toolVars>>

\* lines 52-123 and 206-209: checks, top directories, the goroutines start
OrgStart ==
    /\ mainPc = "start"
    /\ \E mkdirOk \in BOOLEAN :
         IF cfg.outRoot = ""
         THEN /\ mainPc' = "returned"
              /\ result' = <<"emptyRoot">>
              /\ UNCHANGED <<outDirs, wpc, metaPc>>
         ELSE IF ~cfg.dryRun /\ ~mkdirOk
         THEN /\ mainPc' = "returned"
              /\ result' = <<"mkdirTop">>
              /\ UNCHANGED <<outDirs, wpc, metaPc>>
         ELSE /\ mainPc' = "intake"
              /\ result' = result
              /\ outDirs' = IF cfg.dryRun THEN outDirs
                            ELSE outDirs \cup {<<"Library">>, <<"Albums">>}
              /\ wpc' = [w \in Workers |-> "select"]
              /\ metaPc' = IF ~cfg.dryRun /\ cfg.tool THEN "start" ELSE "none"
    /\ UNCHANGED <<photos, cfg, outFiles, copies, jobs, jobsClosed, metaCh, metaClosed,
                   cancelled, firstErr, mi, wcur, wdst, batch, writes, planned>>
    /\ UNCHANGED <<dedupVars, dateVars, toolVars>>

\* lines 211-215: the intake loop's select on ctx.Done()
MainCheck ==
    /\ mainPc = "intake"
    /\ mi <= Len(photos)
    /\ IF cancelled
       THEN /\ mi' = mi + 1
            /\ mainPc' = mainPc
       ELSE /\ mainPc' = "send"
            /\ mi' = mi
    /\ UNCHANGED <<photos, cfg, outFiles, outDirs, copies, jobs, jobsClosed, metaCh,
                   metaClosed, cancelled, firstErr, result, wpc, wcur, wdst, metaPc,
                   batch, writes, planned>>
    /\ UNCHANGED <<dedupVars, dateVars, toolVars>>

\* line 216: jobs <- p, blocking while the queue is full
MainSend ==
    /\ mainPc = "send"
    /\ Len(jobs) < jobsCap
    /\ jobs' = Append(jobs, mi)
    /\ mi' = mi + 1
    /\ mainPc' = "intake"
    /\ UNCHANGED <<photos, cfg, outFiles, outDirs, copies, jobsClosed, metaCh,
                   metaClosed, cancelled, firstErr, result, wpc, wcur, wdst, metaPc,
                   batch, writes, planned>>
    /\ UNCHANGED <<dedupVars, dateVars, toolVars>>

\* line 219: close(jobs)
MainClose ==
    /\ mainPc = "intake"
    /\ mi > Len(photos)
    /\ jobsClosed' = TRUE
    /\ mainPc' = "wait"
    /\ UNCHANGED <<photos, cfg, outFiles, outDirs, copies, jobs, metaCh, metaClosed,
                   cancelled, firstErr, mi, result, wpc, wcur, wdst, metaPc, batch,
                   writes, planned>>
    /\ UNCHANGED <<dedupVars, dateVars, toolVars>>

\* lines 220-221: wg.Wait(), close(metaCh)
MainWait ==
    /\ mainPc = "wait"
    /\ \A w \in Workers : wpc[w] = "done"
    /\ metaClosed' = TRUE
    /\ mainPc' = "metaWait"
    /\ UNCHANGED <<photos, cfg, outFiles, outDirs, copies, jobs, jobsClosed, metaCh,
                   cancelled, firstErr, mi, result, wpc, wcur, wdst, metaPc, batch,
                   writes, planned>>
    /\ UNCHANGED <<dedupVars, dateVars, toolVars>>

\* lines 222-228: metaWg.Wait(), return firstErr
MainReturn ==
    /\ mainPc = "metaWait"
    /\ metaPc \in {"none", "done"}
    /\ mainPc' = "returned"
    /\ result' = firstErr
    /\ UNCHANGED <<photos, cfg, outFiles, outDirs, copies, jobs, jobsClosed, metaCh,
                   metaClosed, cancelled, firstErr, mi, wpc, wcur, wdst, metaPc, batch,
                   writes, planned>>
    /\ UNCHANGED <<dedupVars, dateVars, toolVars>>

\* the mutex section without the test: the last error is kept
recordErrLast(err) ==
    /\ firstErr' = err
    /\ cancelled' = TRUE

\* the mutex section of a failing worker: record the first error, cancel
recordErr(err) ==
    /\ firstErr' = IF firstErr = NoErr THEN err ELSE firstErr
    /\ cancelled' = TRUE

\* lines 130-131: the worker's select takes ctx.Done()
WorkerCancelled(w) ==
    /\ wpc[w] = "select"
    /\ cancelled
    /\ wpc' = [wpc EXCEPT ![w] = "done"]
    /\ UNCHANGED <<photos, cfg, outFiles, outDirs, copies, jobs, jobsClosed, metaCh,
                   metaClosed, cancelled, firstErr, mainPc, mi, result, wcur, wdst,
                   metaPc, batch, writes, planned>>
    /\ UNCHANGED <<dedupVars, dateVars, toolVars>>

\* lines 132-135: the worker's select finds jobs closed and drained
WorkerClosed(w) ==
    /\ wpc[w] = "select"
    /\ jobs = <<>>
    /\ jobsClosed
    /\ wpc' = [wpc EXCEPT ![w] = "done"]
    /\ UNCHANGED <<photos, cfg, outFiles, outDirs, copies, jobs, jobsClosed, metaCh,
                   metaClosed, cancelled, firstErr, mainPc, mi, result, wcur, wdst,
                   metaPc, batch, writes, planned>>
    /\ UNCHANGED <<dedupVars, dateVars, toolVars>>

\* lines 132-142: the worker's select receives a record
WorkerRecv(w) ==
    /\ wpc[w] = "select"
    /\ jobs # <<>>
    /\ jobs' = Tail(jobs)
    /\ LET p == photos[Head(jobs)]
       IN IF p.SrcPath = <<>>
          THEN UNCHANGED <<wpc, wcur>>
          ELSE /\ wcur' = [wcur EXCEPT ![w] = Head(jobs)]
               /\ wpc' = [wpc EXCEPT ![w] =
                            IF TrimSpace(p.FinalAlbum) # <<>> /\ ~cfg.dryRun
                            THEN "mkdir" ELSE "path"]
    /\ UNCHANGED <<photos, cfg, outFiles, outDirs, copies, jobsClosed, metaCh,
                   metaClosed, cancelled, firstErr, mainPc, mi, result, wdst, metaPc,
                   batch, writes, planned>>
    /\ UNCHANGED <<dedupVars, dateVars, toolVars>>

\* lines 143-153: os.MkdirAll of the album directory
WorkerMkdir(w) ==
    /\ wpc[w] = "mkdir"
    /\ \E ok \in BOOLEAN :
         IF ok
         THEN /\ outDirs' = outDirs \cup {destDir(photos[wcur[w]])}
              /\ wpc' = [wpc EXCEPT ![w] = "path"]
              /\ UNCHANGED <<firstErr, cancelled>>
         ELSE /\ recordErr(<<"mkdir", wcur[w]>>)
              /\ wpc' = [wpc EXCEPT ![w] = "done"]
              /\ UNCHANGED outDirs
    /\ UNCHANGED <<photos, cfg, outFiles, copies, jobs, jobsClosed, metaCh, metaClosed,
                   mainPc, mi, result, wcur, wdst, metaPc, batch, writes, planned>>
    /\ UNCHANGED <<dedupVars, dateVars, toolVars>>

\* lines 156-174: the destination path, computed under the mutex
WorkerPath(w) ==
    /\ wpc[w] = "path"
    /\ \E statErr \in BOOLEAN :
         LET p == photos[wcur[w]]
             r == uniquePath(outFiles, destDir(p), destBase(p), p.Hash, statErr)
         IN IF r.ok
            THEN /\ wdst' = [wdst EXCEPT ![w] = r.path]
                 /\ wpc' = [wpc EXCEPT ![w] = IF cfg.dryRun THEN "report" ELSE "copy"]
                 /\ UNCHANGED <<firstErr, cancelled>>
            ELSE /\ recordErr(<<"path", wcur[w]>>)
                 /\ wpc' = [wpc EXCEPT ![w] = "done"]
                 /\ UNCHANGED wdst
    /\ UNCHANGED <<photos, cfg, outFiles, outDirs, copies, jobs, jobsClosed, metaCh,
                   metaClosed, mainPc, mi, result, wcur, metaPc, batch, writes,
                   planned>>
    /\ UNCHANGED <<dedupVars, dateVars, toolVars>>

\* lines 176-177, 198: the dry run reports the planned copy
WorkerReport(w) ==
    /\ wpc[w] = "report"
    /\ planned' = [planned EXCEPT ![wcur[w]] = wdst[w]]
    /\ wpc' = [wpc EXCEPT ![w] = "select"]
    /\ UNCHANGED <<photos, cfg, outFiles, outDirs, copies, jobs, jobsClosed, metaCh,
                   metaClosed, cancelled, firstErr, mainPc, mi, result, wcur, wdst,
                   metaPc, batch, writes>>
    /\ UNCHANGED <<dedupVars, dateVars, toolVars>>

\* the worker goes on to the metadata handoff whatever copyFile returned
WorkerCopyThenMeta(w) ==
    /\ wpc[w] = "copy"
    /\ \E outcome \in {"ok", "openFails", "copyFails"} :
         /\ IF outcome = "openFails"
            THEN UNCHANGED <<outFiles, copies>>
            ELSE /\ outFiles' = outFiles \cup {wdst[w]}
                 /\ copies' = copies \cup {<<wdst[w], wcur[w]>>}
         /\ IF outcome = "ok"
            THEN /\ wpc' = [wpc EXCEPT ![w] = "meta"]
                 /\ UNCHANGED <<firstErr, cancelled>>
            ELSE /\ recordErr(<<"copy", wcur[w]>>)
                 /\ wpc' = [wpc EXCEPT ![w] = "meta"]
    /\ UNCHANGED <<photos, cfg, outDirs, jobs, jobsClosed, metaCh, metaClosed, mainPc,
                   mi, result, wcur, wdst, metaPc, batch, writes, planned>>
    /\ UNCHANGED <<dedupVars, dateVars, toolVars>>

\* lines 182-190, copyFile: open the source, create the destination, copy
WorkerCopy(w) ==
    /\ wpc[w] = "copy"
    /\ \E outcome \in {"ok", "openFails", "copyFails"} :
         /\ IF outcome = "openFails"
            THEN UNCHANGED <<outFiles, copies>>
            ELSE /\ outFiles' = outFiles \cup {wdst[w]}
                 /\ copies' = copies \cup {<<wdst[w], wcur[w]>>}
         /\ IF outcome = "ok"
            THEN /\ wpc' = [wpc EXCEPT ![w] = "meta"]
                 /\ UNCHANGED <<firstErr, cancelled>>
            ELSE /\ recordErr(<<"copy", wcur[w]>>)
                 /\ wpc' = [wpc EXCEPT ![w] = "done"]
    /\ UNCHANGED <<photos, cfg, outDirs, jobs, jobsClosed, metaCh, metaClosed, mainPc,
                   mi, result, wcur, wdst, metaPc, batch, writes, planned>>
    /\ UNCHANGED <<dedupVars, dateVars, toolVars>>

\* lines 191-198: the copied file is handed to the metadata stage
WorkerSendMeta(w) ==
    /\ wpc[w] = "meta"
    /\ Len(metaCh) < metaCap
    /\ metaCh' = Append(metaCh, [Path |-> wdst[w], Rec |-> wcur[w],
                                 Writable |-> photos[wcur[w]].Writable])
    /\ wpc' = [wpc EXCEPT ![w] = "select"]
    /\ UNCHANGED <<photos, cfg, outFiles, outDirs, copies, jobs, jobsClosed, metaClosed,
                   cancelled, firstErr, mainPc, mi, result, wcur, wdst, metaPc, batch,
                   writes, planned>>
    /\ UNCHANGED <<dedupVars, dateVars, toolVars>>

\* lines 91-100: the metadata goroutine starts the batch writer
MetaStart ==
    /\ metaPc = "start"
    /\ \E ok \in BOOLEAN : metaPc' = IF ok THEN "loop" ELSE "done"
    /\ UNCHANGED <<photos, cfg, outFiles, outDirs, copies, jobs, jobsClosed, metaCh,
                   metaClosed, cancelled, firstErr, mainPc, mi, result, wpc, wcur, wdst,
                   batch, writes, planned>>
    /\ UNCHANGED <<dedupVars, dateVars, toolVars>>

\* lines 112-120: one item of the handoff queue
MetaRecv ==
    /\ metaPc = "loop"
    /\ metaCh # <<>>
    /\ metaCh' = Tail(metaCh)
    /\ LET item == Head(metaCh)
           b == Append(batch, item)
       IN IF ~item.Writable
          THEN UNCHANGED <<batch, writes>>
          ELSE IF Len(b) >= cfg.exifBatch
          THEN /\ writes' = Append(writes, b)
               /\ batch' = <<>>
          ELSE /\ batch' = b
               /\ UNCHANGED writes
    /\ UNCHANGED <<photos, cfg, outFiles, outDirs, copies, jobs, jobsClosed, metaClosed,
                   cancelled, firstErr, mainPc, mi, result, wpc, wcur, wdst, metaPc,
                   planned>>
    /\ UNCHANGED <<dedupVars, dateVars, toolVars>>

\* the goroutine ends without the last flush
MetaEndNoFlush ==
    /\ metaPc = "loop"
    /\ metaCh = <<>>
    /\ metaClosed
    /\ batch' = <<>>
    /\ metaPc' = "done"
    /\ UNCHANGED <<photos, cfg, outFiles, outDirs, copies, jobs, jobsClosed, metaCh,
                   metaClosed, cancelled, firstErr, mainPc, mi, result, wpc, wcur, wdst,
                   planned, writes>>
    /\ UNCHANGED <<dedupVars, dateVars, toolVars>>

\* lines 112, 121, 100: the queue is closed and drained: last flush, writer.Close
MetaEnd ==
    /\ metaPc = "loop"
    /\ metaCh = <<>>
    /\ metaClosed
    /\ writes' = IF batch = <<>> THEN writes ELSE Append(writes, batch)
    /\ batch' = <<>>
    /\ metaPc' = "done"
    /\ UNCHANGED <<photos, cfg, outFiles, outDirs, copies, jobs, jobsClosed, metaCh,
                   metaClosed, cancelled, firstErr, mainPc, mi, result, wpc, wcur, wdst,
                   planned>>
    /\ UNCHANGED <<dedupVars, dateVars, toolVars>>

OrgNext ==
    \/ OrgStart
    \/ MainCheck
    \/ MainSend
    \/ MainClose
    \/ MainWait
    \/ MainReturn
    \/ \E w \in Workers : WorkerCancelled(w)
    \/ \E w \in Workers : WorkerClosed(w)
    \/ \E w \in Workers : WorkerRecv(w)
    \/ \E w \in Workers : WorkerMkdir(w)
    \/ \E w \in Workers : WorkerPath(w)
    \/ \E w \in Workers : WorkerReport(w)
    \/ \E w \in Workers : WorkerCopy(w)
    \/ \E w \in Workers : WorkerSendMeta(w)
    \/ MetaStart
    \/ MetaRecv
    \/ MetaEnd

SpecOrganize == OrgInit /\ [][OrgNext]_vars

\* The destinations one worker of a real run obtains for the records, in
\* order, when nothing fails: each copy is in the tree when the next
\* destination is computed. A record without source path is skipped.
RECURSIVE realRun(_, _)
realRun(existing, ps) ==
    IF ps = <<>> THEN <<>>
    ELSE LET p == Head(ps)
             r == uniquePath(existing, destDir(p), destBase(p), p.Hash, FALSE)
         IN IF p.SrcPath = <<>> THEN <<NoPath>> \o realRun(existing, Tail(ps))
            ELSE <<r.path>> \o realRun(existing \cup {r.path}, Tail(ps))

\* ------------------------------------------------------------ source tree
MaxPairs == 2
MaxRuns == 2
MaxEdits == 1
MaxGroup == 3

DateAccuracyJSON == 1
DateAccuracyFilename == 2
DateAccuracyExif == 3
DateAccuracyNone == 99

\* isReasonable: the first year accepted, and the year of the run
MinYear == 1990
NowYear == 2026

\* An instant is year * 1000 + day of the year; 0 stands for no time.
yearOf(t) == t \div 1000

Contents == {"c1", "c2", "c3"}

\* the size in bytes of a content: c1 and c2 have the same size
sizeOf(c) == IF c = "c3" THEN 2 ELSE 1

\* the SHA-256 of a content, in hex (distinct contents, distinct hashes)
hashOf(c) ==
    CASE c = "c1" -> <<"a", "a", "a", "a", "a", "a", "a", "a", "1">>
      [] c = "c2" -> <<"a", "a", "a", "a", "a", "a", "a", "a", "2">>
      [] OTHER -> <<"b", "b", "b", "b", "b", "b", "b", "b", "3">>

\* A media file: "ok", "unreadable" (os.Stat works, reading fails) or "gone"
\* (os.Stat fails).
FileStates == {"ok", "unreadable", "gone"}

Range(f) == {f[x] : x \in DOMAIN f}

Perms(S) ==
    {f \in [1..Cardinality(S) -> S] : \A i, j \in 1..Cardinality(S) : i # j => f[i] # f[j]}

HasPrefix(s, pre) ==
    /\ Len(pre) <= Len(s)
    /\ SubSeq(s, 1, Len(pre)) = pre

\* strings.Split(rel, "/")
RECURSIVE Split(_)
Split(s) ==
    IF \A i \in 1..Len(s) : s[i] # "/" THEN <<s>>
    ELSE LET k == CHOOSE i \in 1..Len(s) : s[i] = "/" /\ \A j \in 1..(i - 1) : s[j] # "/"
         IN <<SubSeq(s, 1, k - 1)>> \o Split(SubSeq(s, k + 1, Len(s)))

\* filepath.Base of a path to a file
Base(path) == LET parts == Split(path) IN parts[Len(parts)]

\* filepath.Dir of a path to a file
Dir(path) == SubSeq(path, 1, Max(Len(path) - Len(Base(path)) - 1, 0))

stripExt(name) == TrimSuffix(name, Ext(name))

\* byte-wise string order
RECURSIVE lessStr(_, _)
lessStr(a, b) ==
    IF b = <<>> THEN FALSE
    ELSE IF a = <<>> THEN TRUE
    ELSE IF Head(a) # Head(b) THEN charRank(Head(a)) < charRank(Head(b))
    ELSE lessStr(Tail(a), Tail(b))

\* filepath.WalkDir visits the entries of a directory in the order of their
\* names: one path is visited before another
RECURSIVE walkLess(_, _)
walkLess(p, q) ==
    IF p = <<>> \/ q = <<>> THEN p = <<>> /\ q # <<>>
    ELSE IF Head(p) # Head(q) THEN lessStr(Head(p), Head(q))
    ELSE walkLess(Tail(p), Tail(q))

\* the file at a path, or none
fileAt(path) ==
    LET hits == {i \in DOMAIN dk : dk[i].path = path}
    IN IF hits = {}
       THEN [path |-> path, content |-> "c1", mtime |-> 0, state |-> "gone",
             json |-> 0, fdate |-> 0, exif |-> 0, cust |-> <<>>]
       ELSE dk[CHOOSE i \in hits : TRUE]

\* HashFile: the hex SHA-256 of the file's bytes, or an error
HashFile(path) ==
    LET f == fileAt(path)
    IN IF f.state = "ok" THEN [err |-> FALSE, hash |-> hashOf(f.content)]
       ELSE [err |-> TRUE, hash |-> <<>>]

\* ---------------------------------------------------------------- scanner
MediaExts ==
    {<<".", "j", "p", "g">>, <<".", "j", "p", "e", "g">>, <<".", "p", "n", "g">>,
     <<".", "h", "e", "i", "c">>, <<".", "m", "p", "4">>, <<".", "m", "o", "v">>,
     <<".", "m", "4", "v">>, <<".", "g", "i", "f">>, <<".", "w", "e", "b", "p">>,
     <<".", "d", "n", "g">>, <<".", "n", "e", "f">>, <<".", "m", "p">>, <<".", "m", "v">>,
     <<".", "m", "p", "~", "2">>, <<".", "m", "p", "~", "3">>}

isMediaFile(lowerPath) == \E e \in MediaExts : HasSuffix(lowerPath, e)

PhotosFrom == <<"P", "h", "o", "t", "o", "s", " ", "f", "r", "o", "m">>

GooglePhotos == <<"G", "o", "o", "g", "l", "e", " ", "P", "h", "o", "t", "o", "s">>

\* detectAlbum, on the path relative to the root
detectAlbum(rel) ==
    LET parts == Split(rel)
    IN IF Len(parts) > 1
       THEN IF parts[1] = GooglePhotos /\ Len(parts) > 2
            THEN IF ~HasPrefix(parts[2], PhotosFrom) THEN parts[2] ELSE <<>>
            ELSE IF ~HasPrefix(parts[1], PhotosFrom) THEN parts[1] ELSE <<>>
       ELSE <<>>

\* the sidecar Takeout writes for a media file: its name is the media name
\* followed by .json, its title is the media name
sidecarPath(path) == path \o <<".", "j", "s", "o", "n">>

\* the files of the tree in the order WalkDir visits them
walkOrder(tree) ==
    CHOOSE f \in Perms(DOMAIN tree) :
        \A i, j \in 1..Len(f) : i < j => walkLess(Split(tree[f[i]].path), Split(tree[f[j]].path))

\* the media files that have a sidecar, in walk order
sidecars(tree) == SelectSeq(walkOrder(tree), LAMBDA i : tree[i].json # 0)

\* pickCandidate: the only candidate, else the first one whose file name is
\* the media name followed by .json, else the first
pickCandidate(tree, cands, base) ==
    IF cands = <<>> THEN <<>>
    ELSE IF Len(cands) = 1 THEN sidecarPath(tree[cands[1]].path)
    ELSE LET exact == SelectSeq(cands, LAMBDA i : Base(tree[i].path) = base)
         IN sidecarPath(tree[(IF exact # <<>> THEN exact ELSE cands)[1]].path)

\* pickPrefixCandidate: in the directory of the media file, the sidecar with
\* the shortest title that has the media extension and starts with its name
pickPrefixCandidate(tree, path) ==
    LET base == Base(path)
        ext == ToLower(Ext(base))
        stem == ToLower(stripExt(base))
        titleBase(i) == TrimSuffix(ToLower(Base(tree[i].path)), ext)
        fit == SelectSeq(sidecars(tree),
                         LAMBDA i : /\ Dir(tree[i].path) = Dir(path)
                                    /\ ext # <<>>
                                    /\ HasSuffix(ToLower(Base(tree[i].path)), ext)
                                    /\ HasPrefix(titleBase(i), stem))
        best == SelectSeq(fit, LAMBDA i : \A k \in 1..Len(fit) :
                                   Len(titleBase(fit[k])) >= Len(titleBase(i)))
    IN IF fit = <<>> THEN <<>> ELSE sidecarPath(tree[best[1]].path)

\* resolveJSONPath: lookup by title, by title without extension, by file
\* name key, by prefix, by normalized name. The names of the trees considered
\* carry no "(n)" index, no edit suffix and no .mp/.mp4/.mov extension, so
\* index stripping, suffix stripping and the live-photo lookups leave them
\* as they are.
resolveJSONPath(tree, path) ==
    LET base == Base(path)
        sc == sidecars(tree)
        byTitle(key) == SelectSeq(sc, LAMBDA i : ToLower(Base(tree[i].path)) = key)
        byKey(key) == SelectSeq(sc, LAMBDA i : Base(tree[i].path) = key)
        byNorm(key) == SelectSeq(sc, LAMBDA i : TrimSpace(ToLower(stripExt(Base(tree[i].path)))) = key)
        tries == << pickCandidate(tree, byTitle(ToLower(base)), base),
                    pickCandidate(tree, byTitle(ToLower(stripExt(base))), base),
                    pickCandidate(tree, byKey(base), base),
                    pickCandidate(tree, byKey(stripExt(base)), base),
                    pickPrefixCandidate(tree, path),
                    pickCandidate(tree, byNorm(TrimSpace(ToLower(stripExt(base)))), base) >>
        found == SelectSeq(tries, LAMBDA p : p # <<>>)
    IN IF found = <<>> THEN <<>> ELSE found[1]

\* ScanTakeout: one pair per media file, in walk order
ScanTakeout(tree) ==
    LET media == SelectSeq(walkOrder(tree), LAMBDA i : isMediaFile(ToLower(tree[i].path)))
    IN [k \in 1..Len(media) |->
          [MediaPath |-> tree[media[k]].path,
           JsonPath |-> resolveJSONPath(tree, tree[media[k]].path),
           Album |-> detectAlbum(tree[media[k]].path)]]

\* ------------------------------------------------------------- hash cache
\* LoadHashCache: the cache read from the cache file; on a read or parse
\* error the zero hashCache, whose Files map is nil
LoadHashCache(file) ==
    CASE file.state = "nopath" -> EmptyMap
      [] file.state = "absent" -> EmptyMap
      [] file.state = "unreadable" -> NilMap
      [] OTHER -> [nil |-> FALSE, files |-> file.files]

\* BuildRegistry line 206: the cache entry of the path is trusted
cacheHit(c, path, size, mtime) ==
    /\ path \in DOMAIN c.files
    /\ c.files[path].Size = size
    /\ c.files[path].MtimeNs = mtime
    /\ c.files[path].Hash # <<>>

\* a save that writes a cache without entries
SaveHashCacheEmpty(file, c, outcome) ==
    IF file.state = "nopath" \/ outcome = "fail" THEN file
    ELSE [state |-> "valid", files |-> <<>>]

\* SaveHashCache: the cache file after the write; outcome "ok", "fail" (the
\* file is left as it was) or "partial" (a truncated, unparsable file)
SaveHashCache(file, c, outcome) ==
    IF file.state = "nopath" \/ outcome = "fail" THEN file
    ELSE IF outcome = "partial" THEN [state |-> "unreadable", files |-> <<>>]
    ELSE [state |-> "valid", files |-> c.files]

\* ---------------------------------------------------------- BuildRegistry
nohashKey(path) == <<"n", "o", "h", "a", "s", "h", ":">> \o path

\* a registry keyed by path alone
registryKeyByPath(hash, hashErr, path) == nohashKey(path)

\* BuildRegistry lines 213-219: the registry key of a file
registryKey(hash, hashErr, path) ==
    IF hashErr THEN nohashKey(path) ELSE hash

\* a fold that keeps the albums of the first pair of a key only
foldPairFirstAlbum(reg, key, hash, hashErr, p, size) ==
    LET fresh == [Hash |-> hash, HashError |-> hashErr, SrcPath |-> p.MediaPath,
                  JsonPath |-> p.JsonPath,
                  Albums |-> IF p.Album # <<>> THEN {p.Album} ELSE {},
                  FinalAlbum |-> <<>>, TakenTime |-> 0, DateAccuracy |-> 0, Size |-> 0]
        photo == IF key \in DOMAIN reg THEN reg[key] ELSE fresh
    IN (key :> [photo EXCEPT !.Size = size]) @@ reg

\* a fold that takes the sidecar of a later pair when the record has none
foldPairLaterSidecar(reg, key, hash, hashErr, p, size) ==
    LET photo == IF key \in DOMAIN reg THEN reg[key]
                 ELSE [Hash |-> hash, HashError |-> hashErr, SrcPath |-> p.MediaPath,
                       JsonPath |-> p.JsonPath, Albums |-> {}, FinalAlbum |-> <<>>,
                       TakenTime |-> 0, DateAccuracy |-> 0, Size |-> 0]
        albums == IF p.Album # <<>> THEN photo.Albums \cup {p.Album} ELSE photo.Albums
        json == IF photo.JsonPath = <<>> THEN p.JsonPath ELSE photo.JsonPath
    IN (key :> [photo EXCEPT !.Albums = albums, !.Size = size, !.JsonPath = json]) @@ reg

\* BuildRegistry lines 228-244: the pair is folded into the registry
foldPair(reg, key, hash, hashErr, p, size) ==
    LET photo == IF key \in DOMAIN reg THEN reg[key]
                 ELSE [Hash |-> hash, HashError |-> hashErr, SrcPath |-> p.MediaPath,
                       JsonPath |-> p.JsonPath, Albums |-> {}, FinalAlbum |-> <<>>,
                       TakenTime |-> 0, DateAccuracy |-> 0, Size |-> 0]
        albums == IF p.Album # <<>> THEN photo.Albums \cup {p.Album} ELSE photo.Albums
    IN (key :> [photo EXCEPT !.Albums = albums, !.Size = size]) @@ reg

\* the media file of index i of the source trees considered
treeFile(i, dir, c, st, js) ==
    [path |-> (IF dir = <<>> THEN <<>> ELSE dir \o <<"/">>) \o <<digitChar(i), ".", "j", "p", "g">>,
     content |-> c, mtime |-> 1, state |-> st,
     json |-> IF js THEN 2020001 ELSE 0, fdate |-> 0, exif |-> 0, cust |-> <<>>]

albumOf(i) == IF i % 2 = 1 THEN <<"T", "r", "i", "p">> ELSE <<"F", "a", "m">>

\* A source tree and the cache file of an earlier run, or none.
DedupInit ==
    /\ \E n \in 0..MaxPairs :
         \E cs \in [1..n -> Contents], sts \in [1..n -> FileStates],
            js \in [1..n -> BOOLEAN], as \in [1..n -> BOOLEAN] :
           dk = [i \in 1..n |-> treeFile(i, IF as[i] THEN albumOf(i) ELSE <<>>, cs[i], sts[i], js[i])]
    /\ pairs = <<>>
    /\ cacheFile \in {[state |-> s, files |-> <<>>] : s \in {"nopath", "absent", "unreadable"}}
    /\ cache = EmptyMap
    /\ registry = <<>>
    /\ pairKey = <<>>
    /\ idx = 1
    /\ dphase = "scan"
    /\ run = 1
    /\ hashed = {}
    /\ firstRun = [done |-> FALSE]
    /\ MergeIdle
    /\ OrgIdle
    /\ ToolIdle
    /\ DateIdle

\* main lines 387-397: the tree is scanned; without media the run ends
Scan ==
    /\ dphase = "scan"
    /\ pairs' = ScanTakeout(dk)
    /\ dphase' = IF pairs' = <<>> THEN "nomedia" ELSE "load"
    /\ UNCHANGED <<dk, cacheFile, cache, registry, pairKey, idx, run, hashed, firstRun,
                   heap, heap0, mgroups, mresult, mphase, selected>>
    /\ UNCHANGED <<orgVars, toolVars>>
    /\ UNCHANGED dateVars

\* BuildRegistry lines 194-197: the registry is created, the cache loaded
BuildStart ==
    /\ dphase = "load"
    /\ cache' = LoadHashCache(cacheFile)
    /\ registry' = <<>>
    /\ pairKey' = <<>>
    /\ idx' = 1
    /\ hashed' = {}
    /\ dphase' = "loop"
    /\ UNCHANGED <<dk, pairs, cacheFile, run, firstRun, heap, heap0, mgroups, mresult,
                   mphase, selected>>
    /\ UNCHANGED <<orgVars, toolVars>>
    /\ UNCHANGED dateVars

\* BuildRegistry lines 198-253: one pair of the loop
BuildStep ==
    /\ dphase = "loop"
    /\ idx <= Len(pairs)
    /\ LET p == pairs[idx]
           f == fileAt(p.MediaPath)
           size == sizeOf(f.content)
           hit == cacheHit(cache, p.MediaPath, size, f.mtime)
           hf == IF hit THEN [err |-> FALSE, hash |-> cache.files[p.MediaPath].Hash]
                 ELSE HashFile(p.MediaPath)
           key == registryKey(hf.hash, hf.err, p.MediaPath)
           entry == [Size |-> size, MtimeNs |-> f.mtime, Hash |-> hf.hash]
       IN IF f.state = "gone"
          THEN /\ idx' = idx + 1
               /\ pairKey' = Append(pairKey, <<>>)
               /\ UNCHANGED <<cache, registry, hashed, dphase>>
          ELSE IF ~hf.err /\ cache.nil
          THEN \* assignment to an entry of the nil Files map
               /\ dphase' = "panic"
               /\ hashed' = IF hit THEN hashed ELSE hashed \cup {p.MediaPath}
               /\ UNCHANGED <<cache, registry, pairKey, idx>>
          ELSE /\ cache' = IF hf.err THEN cache
                           ELSE [cache EXCEPT !.files = (p.MediaPath :> entry) @@ @]
               /\ hashed' = IF hit \/ hf.err THEN hashed ELSE hashed \cup {p.MediaPath}
               /\ registry' = foldPair(registry, key, hf.hash, hf.err, p, size)
               /\ pairKey' = Append(pairKey, key)
               /\ idx' = idx + 1
               /\ UNCHANGED dphase
    /\ UNCHANGED <<dk, pairs, cacheFile, run, firstRun, heap, heap0, mgroups, mresult,
                   mphase, selected>>
    /\ UNCHANGED <<orgVars, toolVars>>
    /\ UNCHANGED dateVars

\* BuildRegistry lines 255-256: the cache is saved, the registry returned
BuildFinish ==
    /\ dphase = "loop"
    /\ idx > Len(pairs)
    /\ \E outcome \in {"ok", "fail", "partial"} :
         /\ cacheFile' = SaveHashCache(cacheFile, cache, outcome)
         /\ firstRun' = IF run = 1
                        THEN [done |-> TRUE, records |-> Range(registry), tree |-> dk,
                              saved |-> (outcome = "ok" /\ cacheFile.state # "nopath")]
                        ELSE firstRun
    /\ dphase' = "built"
    /\ UNCHANGED <<dk, pairs, cache, registry, pairKey, idx, run, hashed, heap, heap0,
                   mgroups, mresult, mphase, selected>>
    /\ UNCHANGED <<orgVars, toolVars>>
    /\ UNCHANGED dateVars

\* registryToSlice: the records of the registry, in map order
RegistryToSlice ==
    /\ dphase = "built"
    /\ mphase = "idle"
    /\ \E order \in Perms(DOMAIN registry) :
         heap' = [i \in 1..Len(order) |-> registry[order[i]]]
    /\ heap0' = heap'
    /\ mphase' = "sliced"
    /\ UNCHANGED <<dk, pairs, cacheFile, cache, registry, pairKey, idx, dphase, run, hashed,
                   firstRun, mgroups, mresult, selected>>
    /\ UNCHANGED <<orgVars, toolVars>>
    /\ UNCHANGED dateVars

\* --------------------------------------------------------- date resolution
\* the custom patterns one run may hold
MaxCustom == 2

\* GuessDateFromFilename: the date the built-in patterns find in the base
\* name, if any
GuessDateFromFilename(path) ==
    LET t == fileAt(path).fdate
    IN [time |-> t, ok |-> t # 0]

\* ParseJSONMeta: the timestamp the sidecar yields, if it can be read
\* (photoTakenTime, or creationTime when the sidecar has no photoTakenTime)
ParseJSONMeta(jsonPath) ==
    LET owners == {i \in DOMAIN dk : sidecarPath(dk[i].path) = jsonPath /\ dk[i].json # 0}
    IN IF jsonPath = <<>> \/ owners = {} THEN [time |-> 0, has |-> FALSE]
       ELSE [time |-> dk[CHOOSE i \in owners : TRUE].json, has |-> TRUE]

\* ParseExifTakenTime
ParseExifTakenTime(path) ==
    LET t == fileAt(path).exif
    IN [time |-> t, ok |-> t # 0]

\* every file time counts as reasonable
isReasonableAlways(t) == TRUE

isReasonable(t) ==
    /\ t # 0
    /\ yearOf(t) >= MinYear
    /\ yearOf(t) <= NowYear + 1

\* the file time replaces the sidecar time also when the two are equal
shouldOverrideJSONOrEqual(jsonTime, fileTime) ==
    /\ fileTime <= jsonTime
    /\ isReasonable(fileTime)

shouldOverrideJSON(jsonTime, fileTime) ==
    /\ fileTime < jsonTime
    /\ isReasonable(fileTime)

\* exclusions are looked up only after the custom patterns
isExcludedNever(path, exclude) == FALSE

\* isExcluded: the base name is in the exclusion set
isExcluded(path, exclude) ==
    /\ exclude # {}
    /\ Base(path) \in exclude

\* the custom patterns whose expression matches the base name of the path
matching(path) == DOMAIN fileAt(path).cust

\* the date a matching custom pattern parses from the name, 0 when the
\* layout does not parse the matched text
customDate(path, pat) == fileAt(path).cust[pat]

\* guessWithPatterns with the custom patterns: the first pattern, in order,
\* that matches the base name and parses
guessWithPatterns(path, patterns) ==
    LET hits == {i \in 1..Len(patterns) :
                    patterns[i] \in matching(path) /\ customDate(path, patterns[i]) # 0}
    IN IF hits = {} THEN [time |-> 0, ok |-> FALSE]
       ELSE LET first == CHOOSE i \in hits : \A j \in hits : i <= j
            IN [time |-> customDate(path, patterns[first]), ok |-> TRUE]

GuessDateFromFilenameWithCustomAndExclusions(path, cust, exclude) ==
    IF isExcluded(path, exclude) THEN [time |-> 0, ok |-> FALSE]
    ELSE LET c == guessWithPatterns(path, cust)
         IN IF c.ok THEN c
            ELSE IF isExcluded(path, exclude) THEN [time |-> 0, ok |-> FALSE]
            ELSE GuessDateFromFilename(path)

ExtractBestDateWithCustomAndExclusions(srcPath, jsonTime, hasJSON, cust, exclude) ==
    LET file == GuessDateFromFilenameWithCustomAndExclusions(srcPath, cust, exclude)
        exif == ParseExifTakenTime(srcPath)
        noExif == [exifTime |-> 0, hasExif |-> FALSE]
    IN IF hasJSON /\ file.ok
       THEN IF shouldOverrideJSON(jsonTime, file.time)
            THEN [time |-> file.time, accuracy |-> DateAccuracyFilename, ok |-> TRUE] @@ noExif
            ELSE [time |-> jsonTime, accuracy |-> DateAccuracyJSON, ok |-> TRUE] @@ noExif
       ELSE IF hasJSON
       THEN [time |-> jsonTime, accuracy |-> DateAccuracyJSON, ok |-> TRUE] @@ noExif
       ELSE IF file.ok
       THEN [time |-> file.time, accuracy |-> DateAccuracyFilename, ok |-> TRUE] @@ noExif
       ELSE IF exif.ok
       THEN [time |-> exif.time, accuracy |-> DateAccuracyExif, ok |-> TRUE,
             exifTime |-> exif.time, hasExif |-> TRUE]
       ELSE [time |-> 0, accuracy |-> DateAccuracyNone, ok |-> FALSE] @@ noExif

\* collectDateProposals: the proposal for each record
collectDateProposals(h, cust, exclude) ==
    [id \in DOMAIN h |->
        LET js == ParseJSONMeta(h[id].JsonPath)
            file == GuessDateFromFilenameWithCustomAndExclusions(h[id].SrcPath, cust, exclude)
            best == ExtractBestDateWithCustomAndExclusions(h[id].SrcPath, js.time, js.has,
                                                           cust, exclude)
        IN [jsonTime |-> js.time, fileTime |-> file.time, exifTime |-> best.exifTime,
            hasJSON |-> js.has, hasFile |-> file.ok, hasExif |-> best.hasExif,
            proposed |-> best.time,
            accuracy |-> IF best.ok THEN best.accuracy ELSE DateAccuracyNone]]

\* filterUnknown: the records with neither a sidecar time nor a file time
filterUnknown(props) ==
    SelectSeq([i \in 1..Len(props) |-> i],
              LAMBDA id : ~props[id].hasJSON /\ ~props[id].hasFile)

\* previewCustomPattern: how many of the paths the pattern matches, and the
\* base names of those whose matched text the layout parses
previewCustomPattern(pat, paths) ==
    LET m == SelectSeq(paths, LAMBDA p : pat \in matching(p))
        ok == SelectSeq(m, LAMBDA p : customDate(p, pat) # 0)
    IN [matched |-> Len(m), parsed |-> Len(ok),
        previews |-> [i \in 1..Len(ok) |-> Base(ok[i])]]

\* the patterns the operator may type: those written for names of the tree
OperatorPatterns == UNION {DOMAIN dk[i].cust : i \in DOMAIN dk}

\* applyDatesWithReview lines 502-516 and the loop's first test: the custom
\* patterns and the exclusions are loaded, the proposals collected
DatesLoad ==
    /\ mphase = "sliced"
    /\ IF dateStore.pstate = "unreadable" \/ dateStore.xstate = "unreadable"
       THEN /\ mphase' = "dateError"
            /\ UNCHANGED <<custom, exclusions, proposals>>
       ELSE /\ custom' = dateStore.plist
            /\ exclusions' = dateStore.xlist
            /\ proposals' = collectDateProposals(heap, custom', exclusions')
            /\ mphase' = IF filterUnknown(proposals') = <<>> THEN "review" ELSE "unknowns"
    /\ UNCHANGED <<dk, pairs, cacheFile, cache, registry, pairKey, idx, dphase, run, hashed,
                   firstRun, heap, heap0, mgroups, mresult, selected, dateStore>>
    /\ UNCHANGED <<orgVars, toolVars>>

\* promptCustomPatternsLoop and the rest of one round of the loop of
\* applyDatesWithReview: the operator stops (blank line), or types a pattern,
\* keeps it or not, accepts all, none, or excludes some of the previews; the
\* exclusions and the patterns are saved; when a pattern was added the
\* proposals are collected again
DatesRefine ==
    /\ mphase = "unknowns"
    /\ LET unknown == filterUnknown(proposals)
           unknownPaths == [i \in 1..Len(unknown) |-> heap[unknown[i]].SrcPath]
       IN \/ \* blank line: nothing changed, the loop ends
             /\ mphase' = "review"
             /\ UNCHANGED <<custom, exclusions, proposals, dateStore>>
          \/ \E pat \in OperatorPatterns, keep \in BOOLEAN,
                typed \in {"pattern", "noLayout", "invalidRegex"},
                decision \in {"all", "none", "exclude"},
                saveExclusions \in BOOLEAN, savePatterns \in BOOLEAN :
               LET pv == previewCustomPattern(pat, unknownPaths)
               IN /\ Len(custom) < MaxCustom
                  /\ \E list \in SUBSET (1..Len(pv.previews) + 1) :
                       LET excluded == {i \in list : i >= 1 /\ i <= Len(pv.previews)}
                           ex == IF decision = "exclude"
                                 THEN exclusions \cup {pv.previews[i] : i \in excluded}
                                 ELSE exclusions
                       IN IF typed # "pattern"
                          THEN \* no layout, or a regex that does not compile:
                               \* the prompt is shown again
                               UNCHANGED <<custom, exclusions, proposals, dateStore, mphase>>
                          ELSE IF ((pv.matched = 0 \/ pv.parsed = 0) /\ ~keep) \/ decision = "none"
                          THEN \* the prompt is shown again
                               UNCHANGED <<custom, exclusions, proposals, dateStore, mphase>>
                          ELSE IF decision = "exclude" /\ ~saveExclusions
                          THEN /\ exclusions' = ex
                               /\ mphase' = "dateError"
                               /\ UNCHANGED <<custom, proposals, dateStore>>
                          ELSE IF ~savePatterns
                          THEN /\ exclusions' = ex
                               /\ dateStore' = IF decision = "exclude"
                                               THEN [dateStore EXCEPT !.xstate = "ok", !.xlist = ex]
                                               ELSE dateStore
                               /\ mphase' = "dateError"
                               /\ UNCHANGED <<custom, proposals>>
                          ELSE /\ exclusions' = ex
                               /\ custom' = Append(custom, pat)
                               /\ dateStore' =
                                    [pstate |-> "ok", plist |-> custom',
                                     xstate |-> IF decision = "exclude" THEN "ok" ELSE dateStore.xstate,
                                     xlist |-> IF decision = "exclude" THEN ex ELSE dateStore.xlist]
                               /\ proposals' = collectDateProposals(heap, custom', ex)
                               /\ mphase' = IF filterUnknown(proposals') = <<>>
                                            THEN "review" ELSE "unknowns"
    /\ UNCHANGED <<dk, pairs, cacheFile, cache, registry, pairKey, idx, dphase, run, hashed,
                   firstRun, heap, heap0, mgroups, mresult, selected>>
    /\ UNCHANGED <<orgVars, toolVars>>

\* the proposals are written to the records although the operator declined
applyAlways(confirmed) == TRUE

\* promptApplyConfirmation: the operator typed APPLY
applyConfirmed(confirmed) == confirmed

\* applyDatesWithReview lines 534-550: the proposals are shown; they are
\* applied when the operator types APPLY, else the run ends
DatesConfirm ==
    /\ mphase = "review"
    /\ \E confirmed \in BOOLEAN :
         /\ IF applyConfirmed(confirmed)
            THEN heap' = [id \in DOMAIN heap |->
                            LET p == proposals[id]
                            IN IF p.accuracy = DateAccuracyNone
                               THEN [heap[id] EXCEPT !.TakenTime = 0,
                                                     !.DateAccuracy = DateAccuracyNone]
                               ELSE [heap[id] EXCEPT !.TakenTime = p.proposed,
                                                     !.DateAccuracy = p.accuracy]]
            ELSE UNCHANGED heap
         /\ mphase' = IF confirmed THEN "ready" ELSE "refused"
    /\ UNCHANGED <<dk, pairs, cacheFile, cache, registry, pairKey, idx, dphase, run, hashed,
                   firstRun, heap0, mgroups, mresult, selected>>
    /\ UNCHANGED dateVars
    /\ UNCHANGED <<orgVars, toolVars>>

\* ------------------------------------------- GroupIdentical, MergeIdentical
idSeq(h) == [i \in 1..Len(h) |-> i]

\* GroupIdentical lines 13-15: the records of one size, in slice order
sizeGroup(h, size) == SelectSeq(idSeq(h), LAMBDA id : h[id].Size = size)

inMultiGroup(h, id) == Len(sizeGroup(h, h[id].Size)) > 1

\* GroupIdentical lines 31-40: a record of a multi-member size group whose
\* hash is not known yet is hashed now
rehash(h) ==
    [id \in DOMAIN h |->
        IF inMultiGroup(h, id) /\ ~h[id].HashError /\ h[id].Hash = <<>>
        THEN LET r == HashFile(h[id].SrcPath)
             IN IF r.err THEN [h[id] EXCEPT !.HashError = TRUE]
                ELSE [h[id] EXCEPT !.Hash = r.hash]
        ELSE h[id]]

\* grouping without the fallback key of hash-failed records
groupKeyNoFallback(h, id) ==
    IF ~inMultiGroup(h, id) THEN Itoa(h[id].Size) \o <<"b", "y", "t", "e", "s">>
    ELSE h[id].Hash

\* GroupIdentical lines 19, 27, 35, 41: the key of a record's group
groupKey(h, id) ==
    IF ~inMultiGroup(h, id) THEN Itoa(h[id].Size) \o <<"b", "y", "t", "e", "s">>
    ELSE IF h[id].HashError
    THEN <<"n", "o", "h", "a", "s", "h", ":">> \o Itoa(h[id].Size) \o <<":">> \o h[id].SrcPath
    ELSE h[id].Hash

groupKeys(h) == {groupKey(h, id) : id \in DOMAIN h}

\* the sizes whose groups write finalGroups[key]
keySizes(h, key) == {h[id].Size : id \in {x \in DOMAIN h : groupKey(h, x) = key}}

\* the ways finalGroups can end: for each key the size group written last
\* (the size groups are visited in map order)
GroupPicks(h) ==
    LET h2 == rehash(h)
        sizes == {h2[id].Size : id \in DOMAIN h2}
    IN {f \in [groupKeys(h2) -> sizes] : \A k \in groupKeys(h2) : f[k] \in keySizes(h2, k)}

\* GroupIdentical: the records after hashing and the groups
GroupIdentical(h, pick) ==
    LET h2 == rehash(h)
    IN [heap |-> h2,
        groups |-> {SelectSeq(idSeq(h2),
                              LAMBDA id : groupKey(h2, id) = k /\ h2[id].Size = pick[k]) :
                      k \in groupKeys(h2)}]

\* chooseBest lines 53-58: the comparison handed to sort.Slice
chooseLess(h, a, b) ==
    IF h[a].DateAccuracy < h[b].DateAccuracy
    THEN h[a].DateAccuracy < h[b].DateAccuracy
    ELSE Len(h[a].SrcPath) < Len(h[b].SrcPath)

swap(s, i, j) == [s EXCEPT ![i] = s[j], ![j] = s[i]]

\* sort.Slice on a short slice: insertion sort with the given comparison
RECURSIVE sink(_, _, _)
sink(h, s, j) ==
    IF j > 1 /\ chooseLess(h, s[j], s[j - 1]) THEN sink(h, swap(s, j, j - 1), j - 1) ELSE s

RECURSIVE insertionSort(_, _, _)
insertionSort(h, s, i) ==
    IF i > Len(s) THEN s ELSE insertionSort(h, sink(h, s, i), i + 1)

\* chooseBest: the first record of the sorted group
chooseBest(h, group) == insertionSort(h, group, 2)[1]

\* MergeIdentical lines 81-86: the albums the representative ends with. Its
\* map is replaced by an empty one before the members' albums are added.
mergedAlbums(h, group, best) ==
    UNION {IF q = best THEN {} ELSE h[q].Albums : q \in Range(group)}

\* MergeIdentical: the records after the merge, the groups, the result
MergeIdentical(h, pick) ==
    LET g == GroupIdentical(h, pick)
        multi == {grp \in g.groups : Len(grp) > 1}
        rep(grp) == IF Len(grp) = 1 THEN grp[1] ELSE chooseBest(g.heap, grp)
    IN [heap |-> [id \in DOMAIN g.heap |->
                    IF \E grp \in multi : rep(grp) = id
                    THEN LET grp == CHOOSE x \in multi : rep(x) = id
                         IN [g.heap[id] EXCEPT !.Albums = mergedAlbums(g.heap, grp, id)]
                    ELSE g.heap[id]],
        groups |-> g.groups,
        result |-> {rep(grp) : grp \in g.groups}]

\* MergeIdentical on the photos slice
Merge ==
    /\ mphase = "ready"
    /\ \E pick \in GroupPicks(heap) :
         LET m == MergeIdentical(heap, pick)
         IN /\ heap' = m.heap
            /\ mgroups' = m.groups
            /\ mresult' = m.result
    /\ heap0' = heap
    /\ mphase' = "merged"
    /\ UNCHANGED <<dk, pairs, cacheFile, cache, registry, pairKey, idx, dphase, run, hashed,
                   firstRun, selected>>
    /\ UNCHANGED <<orgVars, toolVars>>
    /\ UNCHANGED dateVars

\* Between two runs a media file is rewritten (new content, new mtime),
\* touched (new mtime) or replaced by content of the same size with its
\* mtime kept.
EditFile ==
    /\ dphase = "built"
    /\ mphase = "merged"
    /\ run < MaxRuns
    /\ Cardinality({i \in DOMAIN dk : dk[i] # firstRun.tree[i]}) < MaxEdits
    /\ \E i \in DOMAIN dk, kind \in {"rewrite", "touch", "stealth"}, c \in Contents :
         /\ dk[i] = firstRun.tree[i]
         /\ dk[i].state # "gone"
         /\ kind = "rewrite" => c # dk[i].content
         /\ kind = "touch" => c = dk[i].content
         /\ kind = "stealth" => c # dk[i].content /\ sizeOf(c) = sizeOf(dk[i].content)
         /\ dk' = [dk EXCEPT ![i].content = c,
                             ![i].mtime = IF kind = "stealth" THEN @ ELSE @ + 1]
    /\ UNCHANGED <<pairs, cacheFile, cache, registry, pairKey, idx, dphase, run, hashed,
                   firstRun, heap, heap0, mgroups, mresult, mphase, selected>>
    /\ UNCHANGED <<orgVars, toolVars>>
    /\ UNCHANGED dateVars

\* The scanner and the dedup engine are run again on the tree.
Rerun ==
    /\ dphase = "built"
    /\ mphase = "merged"
    /\ run < MaxRuns
    /\ run' = run + 1
    /\ dphase' = "scan"
    /\ heap' = <<>>
    /\ heap0' = <<>>
    /\ mgroups' = {}
    /\ mresult' = {}
    /\ mphase' = "idle"
    /\ UNCHANGED <<dk, pairs, cacheFile, cache, registry, pairKey, idx, hashed, firstRun,
                   selected>>
    /\ UNCHANGED <<orgVars, toolVars>>
    /\ UNCHANGED dateVars

DedupNext ==
    \/ Scan
    \/ BuildStart
    \/ BuildStep
    \/ BuildFinish
    \/ RegistryToSlice
    \/ DatesLoad
    \/ DatesRefine
    \/ DatesConfirm
    \/ Merge
    \/ EditFile
    \/ Rerun

SpecDedup == DedupInit /\ [][DedupNext]_vars

\* --------------------------------------------- MergeIdentical as a function
\* A record handed to MergeIdentical whose file is a file of the tree.
groupRecord(i, hashState, albums, acc) ==
    [Hash |-> IF hashState = "known" THEN hashOf(dk[i].content) ELSE <<>>,
     HashError |-> (hashState = "failed"),
     SrcPath |-> dk[i].path, JsonPath |-> <<>>, Albums |-> albums, FinalAlbum |-> <<>>,
     TakenTime |-> 0, DateAccuracy |-> acc, Size |-> sizeOf(dk[i].content)]

\* A call of MergeIdentical: any list of at most MaxGroup records, in any
\* order, over files with one or two sizes, short and long paths.
MergeInit ==
    /\ \E n \in 0..MaxGroup :
         \E cs \in [1..n -> {"c1", "c3"}], long \in [1..n -> BOOLEAN],
            hs \in [1..n -> {"known", "unknown", "failed"}],
            as \in [1..n -> BOOLEAN],
            accs \in [1..n -> {DateAccuracyJSON, DateAccuracyNone}] :
           /\ dk = [i \in 1..n |->
                      [path |-> (IF long[i] THEN <<"d", "/">> ELSE <<>>)
                                   \o <<digitChar(i), ".", "j", "p", "g">>,
                       content |-> cs[i], mtime |-> 1, state |-> "ok",
                       json |-> 0, fdate |-> 0, exif |-> 0, cust |-> <<>>]]
           /\ heap = [i \in 1..n |->
                        groupRecord(i, hs[i], IF as[i] THEN {albumOf(i)} ELSE {}, accs[i])]
    /\ heap0 = heap
    /\ mgroups = {}
    /\ mresult = {}
    /\ mphase = "ready"
    /\ selected = <<>>
    /\ pairs = <<>>
    /\ cacheFile = [state |-> "nopath", files |-> <<>>]
    /\ cache = EmptyMap
    /\ registry = <<>>
    /\ pairKey = <<>>
    /\ idx = 1
    /\ dphase = "idle"
    /\ run = 0
    /\ hashed = {}
    /\ firstRun = [done |-> FALSE]
    /\ OrgIdle
    /\ ToolIdle
    /\ DateIdle

SpecMerge == MergeInit /\ [][Merge]_vars

\* ----------------------------------------------------------------- albums
\* sort.Strings
sortStrings(S) ==
    CHOOSE f \in Perms(S) : \A i, j \in 1..Len(f) : i < j => lessStr(f[i], f[j])

\* ListDistinctAlbums: the album names of the records, sorted
ListDistinctAlbums(h, ids) == sortStrings(UNION {h[id].Albums : id \in ids})

\* PromptAlbumSelection lines 107-139: the items of the line, one by one. An
\* item is a number or a name.
RECURSIVE parseItems(_, _, _)
parseItems(albums, items, sel) ==
    IF items = <<>> THEN [err |-> FALSE, selected |-> sel]
    ELSE LET item == Head(items)
             named == {i \in 1..Len(albums) : ToLower(albums[i]) = ToLower(item.name)}
             \* albumIndex keeps the last album of a lower-case name
             at == IF item.isNum THEN item.num
                   ELSE IF named = {} THEN 0
                   ELSE CHOOSE i \in named : \A j \in named : j <= i
         IN IF item.isNum /\ (item.num < 1 \/ item.num > Len(albums))
            THEN [err |-> TRUE, selected |-> <<>>]
            ELSE IF ~item.isNum /\ named = {} THEN [err |-> TRUE, selected |-> <<>>]
            ELSE IF albums[at] \in Range(sel) THEN parseItems(albums, Tail(items), sel)
            ELSE parseItems(albums, Tail(items), Append(sel, albums[at]))

\* PromptAlbumSelection: line is "empty", "all" or "items"
PromptAlbumSelection(albums, line, items) ==
    IF albums = <<>> \/ line = "empty" THEN [err |-> FALSE, selected |-> <<>>]
    ELSE IF line = "all" THEN [err |-> FALSE, selected |-> albums]
    ELSE parseItems(albums, items, <<>>)

\* the items the operator types: numbers from 0 to one past the list, the
\* names of the list in lower case, a name not in the list
SelectionItems(albums) ==
    {[isNum |-> TRUE, num |-> n, name |-> <<>>] : n \in 0..(Len(albums) + 1)}
        \cup {[isNum |-> FALSE, num |-> 0, name |-> ToLower(a)] : a \in Range(albums)}
        \cup {[isNum |-> FALSE, num |-> 0, name |-> <<"x">>]}

SelectionLines(albums) ==
    {<<>>} \cup {<<x>> : x \in SelectionItems(albums)}
        \cup {<<x, y>> : x \in SelectionItems(albums), y \in SelectionItems(albums)}

\* the last selected album the record is a member of
finalAlbumLast(albums, sel) ==
    LET hits == SelectSeq(sel, LAMBDA name : name \in albums)
    IN IF hits = <<>> THEN <<>> ELSE hits[Len(hits)]

\* AssignFinalAlbums: the first selected album the record is a member of
finalAlbum(albums, sel) ==
    LET hits == SelectSeq(sel, LAMBDA name : name \in albums)
    IN IF hits = <<>> THEN <<>> ELSE hits[1]

AssignFinalAlbums(h, ids, sel) ==
    [id \in DOMAIN h |->
        IF id \in ids THEN [h[id] EXCEPT !.FinalAlbum = finalAlbum(h[id].Albums, sel)]
        ELSE h[id]]

\* main lines 436-447: albums are listed, selected and assigned
AssignAlbums ==
    /\ mphase = "merged"
    /\ \E line \in {"empty", "all", "items"} :
         \E items \in IF line = "items" THEN SelectionLines(ListDistinctAlbums(heap, mresult))
                      ELSE {<<>>} :
           LET r == PromptAlbumSelection(ListDistinctAlbums(heap, mresult), line, items)
           IN IF r.err
              THEN /\ mphase' = "albumError"
                   /\ UNCHANGED <<heap, selected>>
              ELSE /\ selected' = r.selected
                   /\ heap' = AssignFinalAlbums(heap, mresult, r.selected)
                   /\ mphase' = "assigned"
    /\ UNCHANGED <<dk, pairs, cacheFile, cache, registry, pairKey, idx, dphase, run, hashed,
                   firstRun, heap0, mgroups, mresult>>
    /\ UNCHANGED <<orgVars, toolVars>>
    /\ UNCHANGED dateVars

\* the record as OrganizePhotos reads it; the media of the trees are JPEG
\* files, and only the taken time makes the metadata writable
orgPhoto(r) ==
    [SrcPath |-> r.SrcPath, Base |-> Base(r.SrcPath), Hash |-> r.Hash,
     FinalAlbum |-> r.FinalAlbum, Kind |-> "jpeg", Writable |-> (r.TakenTime # 0)]

\* main lines 449-455: OrganizePhotos is called on the merged records
CallOrganize ==
    /\ mphase = "assigned"
    /\ mainPc = "idle"
    /\ \E order \in Perms(mresult) :
         photos' = [k \in 1..Len(order) |-> orgPhoto(heap[order[k]])]
    /\ \E dry \in BOOLEAN, tool \in BOOLEAN, wk \in 0..MaxWorkers, eb \in 0..MaxBatch,
          root \in {"", "out"} :
         cfg' = [dryRun |-> dry, workers |-> Max(wk, 1), exifBatch |-> Max(eb, 1),
                 tool |-> tool, outRoot |-> root]
    /\ mainPc' = "start"
    /\ wpc' = [w \in 1..cfg'.workers |-> "idle"]
    /\ wcur' = [w \in 1..cfg'.workers |-> 0]
    /\ wdst' = [w \in 1..cfg'.workers |-> NoPath]
    /\ planned' = [i \in 1..Len(photos') |-> NoPath]
    /\ mphase' = "output"
    /\ UNCHANGED <<outFiles, outDirs, copies, jobs, jobsClosed, metaCh, metaClosed, cancelled,
                   firstErr, mi, result, metaPc, batch, writes>>
    /\ UNCHANGED <<dk, pairs, cacheFile, cache, registry, pairKey, idx, dphase, run, hashed,
                   firstRun, heap, heap0, mgroups, mresult, selected>>
    /\ UNCHANGED <<dateVars, toolVars>>

\* ------------------------------------------------------------ the pipeline
pipeFile(name, c, json, fdate) ==
    [path |-> <<"T", "r", "i", "p", "/", name, ".", "j", "p", "g">>,
     content |-> c, mtime |-> 1, state |-> "ok", json |-> json, fdate |-> fdate, exif |-> 0, cust |-> <<>>]

\* Three identical files under Trip: A has a date in its name, B a sidecar,
\* C neither.
ScenarioTree ==
    <<pipeFile("A", "c1", 0, 2019262), pipeFile("B", "c1", 2020001, 0), pipeFile("C", "c1", 0, 0)>>

\* The trees of the pipeline runs: the scenario and its variations.
PipeTrees ==
    {<<pipeFile("A", "c1", 0, af), pipeFile("B", "c1", 2020001, 0), pipeFile("C", cc, 0, 0)>> :
        af \in {0, 2019262}, cc \in {"c1", "c2"}}

PipeInit ==
    /\ dk \in PipeTrees
    /\ pairs = <<>>
    /\ cacheFile \in {[state |-> s, files |-> <<>>] : s \in {"absent", "unreadable"}}
    /\ cache = EmptyMap
    /\ registry = <<>>
    /\ pairKey = <<>>
    /\ idx = 1
    /\ dphase = "scan"
    /\ run = 1
    /\ hashed = {}
    /\ firstRun = [done |-> FALSE]
    /\ MergeIdle
    /\ OrgIdle
    /\ ToolIdle
    /\ custom = <<>>
    /\ exclusions = {}
    /\ proposals = <<>>
    /\ \E xs \in {"absent", "unreadable"} :
         dateStore = [pstate |-> "absent", plist |-> <<>>, xstate |-> xs, xlist |-> {}]

\* One run of main, from the scan to the return of OrganizePhotos.
PipeNext ==
    \/ Scan
    \/ BuildStart
    \/ BuildStep
    \/ BuildFinish
    \/ RegistryToSlice
    \/ DatesLoad
    \/ DatesRefine
    \/ DatesConfirm
    \/ Merge
    \/ AssignAlbums
    \/ CallOrganize
    \/ OrgNext

SpecPipeline == PipeInit /\ [][PipeNext]_vars

\* ------------------------------------------------------ the dates-only run
\* the media files of the trees of the dates-only runs
MaxDated == 2

\* photosFromScan: one record for each pair, without hash
photosFromScan(prs) ==
    LET withMedia == SelectSeq(prs, LAMBDA p : p.MediaPath # <<>>)
    IN [i \in 1..Len(withMedia) |->
          [Hash |-> <<>>, HashError |-> FALSE, SrcPath |-> withMedia[i].MediaPath,
           JsonPath |-> withMedia[i].JsonPath,
           Albums |-> IF withMedia[i].Album # <<>> THEN {withMedia[i].Album} ELSE {},
           FinalAlbum |-> <<>>, TakenTime |-> 0, DateAccuracy |-> 0, Size |-> 0]]

\* main lines 407-414: with -dates-only the records come from the scan
DatesOnly ==
    /\ dphase = "load"
    /\ mphase = "idle"
    /\ heap' = photosFromScan(pairs)
    /\ heap0' = heap'
    /\ dphase' = "datesOnly"
    /\ mphase' = "sliced"
    /\ UNCHANGED <<dk, pairs, cacheFile, cache, registry, pairKey, idx, run, hashed,
                   firstRun, mgroups, mresult, selected>>
    /\ UNCHANGED dateVars
    /\ UNCHANGED <<orgVars, toolVars>>

\* a media file with the dates its sidecar, its name and its tags carry
datedFile(dir, i, json, fdate, exif, cust) ==
    [path |-> dir \o <<"/", digitChar(i), ".", "j", "p", "g">>,
     content |-> "c1", mtime |-> 1, state |-> "ok",
     json |-> json, fdate |-> fdate, exif |-> exif, cust |-> cust]

\* the dates a name may carry for the built-in patterns: none, unreasonable
\* and reasonable ones on both sides of the sidecar times
FileDates == {0, 1989365, 1990001, 2019262, 2027365, 2028001}

JsonDates == {0, 2019262, 2029001}

ExifDates == {0, 2017050}

\* what the custom patterns p1 and p2 do with a name: no match, a match the
\* layout does not parse, a match with a date
CustomOfFirst == {<<>>, "p1" :> 0, "p1" :> 2018100, ("p1" :> 2018100) @@ ("p2" :> 2016200)}

CustomOfSecond == {<<>>, "p2" :> 2016200}

\* one or two media files, the second with the base name of the first or
\* with another; the pattern and exclusion files of an earlier run, or none
DatesInit ==
    /\ \E json \in JsonDates, fdate \in FileDates, exif \in ExifDates, cust \in CustomOfFirst :
         LET first == datedFile(<<"A">>, 1, json, fdate, exif, cust)
         IN \/ dk = <<first>>
            \/ \E json2 \in {0, 2019262} :
                 dk = <<first, datedFile(<<"B">>, 1, json2, fdate, 0, cust)>>
            \/ \E json2 \in {0, 2019262}, fdate2 \in {0, 2016200}, cust2 \in CustomOfSecond :
                 dk = <<first, datedFile(<<"B">>, 2, json2, fdate2, 0, cust2)>>
    /\ \E ps \in {"absent", "unreadable", "ok"}, xs \in {"absent", "unreadable", "ok"} :
         dateStore = [pstate |-> ps, plist |-> IF ps = "ok" THEN <<"p1">> ELSE <<>>,
                      xstate |-> xs,
                      xlist |-> IF xs = "ok" THEN {<<"1", ".", "j", "p", "g">>} ELSE {}]
    /\ custom = <<>>
    /\ exclusions = {}
    /\ proposals = <<>>
    /\ pairs = <<>>
    /\ cacheFile = [state |-> "nopath", files |-> <<>>]
    /\ cache = EmptyMap
    /\ registry = <<>>
    /\ pairKey = <<>>
    /\ idx = 1
    /\ dphase = "scan"
    /\ run = 1
    /\ hashed = {}
    /\ firstRun = [done |-> FALSE]
    /\ MergeIdle
    /\ OrgIdle
    /\ ToolIdle

DatesNext ==
    \/ Scan
    \/ DatesOnly
    \/ DatesLoad
    \/ DatesRefine
    \/ DatesConfirm

SpecDates == DatesInit /\ [][DatesNext]_vars

\* -------------------------------------------- AssignFinalAlbums on any list
\* the records of the lists AssignFinalAlbums is given
MaxAssigned == 2

AlbumNames == {<<"F", "a", "m">>, <<"T", "r", "i", "p">>, <<"Z", "o", "o">>}

\* a record with its memberships and the album an earlier call assigned
albumRecord(i, albums, final) ==
    [Hash |-> hashOf("c1"), HashError |-> FALSE,
     SrcPath |-> <<digitChar(i), ".", "j", "p", "g">>, JsonPath |-> <<>>,
     Albums |-> albums, FinalAlbum |-> final, TakenTime |-> 0,
     DateAccuracy |-> DateAccuracyNone, Size |-> sizeOf("c1")]

\* any list of records, each with any memberships and any earlier assignment
AlbumsInit ==
    /\ \E n \in 1..MaxAssigned :
         \E al \in [1..n -> SUBSET AlbumNames],
            fin \in [1..n -> {<<>>, <<"O", "l", "d">>, <<"T", "r", "i", "p">>}] :
           /\ heap = [i \in 1..n |-> albumRecord(i, al[i], fin[i])]
           /\ mresult = 1..n
    /\ heap0 = heap
    /\ mgroups = {}
    /\ mphase = "merged"
    /\ selected = <<>>
    /\ DedupIdle
    /\ OrgIdle
    /\ ToolIdle
    /\ DateIdle

SpecAlbums == AlbumsInit /\ [][AssignAlbums]_vars

\* ------------------------------------------------------- the scan of a tree
\* the media files of the trees scanned
MaxScanned == 2

\* the directories of the trees scanned: the root, the wrapper folder, an
\* album and the container of uploads, the last two also under the wrapper
ScanDirs ==
    LET trip == <<"T", "r", "i", "p">>
        uploads == PhotosFrom \o <<" ", "2", "0", "1", "9">>
    IN {<<>>, GooglePhotos, trip, uploads,
        GooglePhotos \o <<"/">> \o trip, GooglePhotos \o <<"/">> \o uploads}

\* the names of the media files scanned: one is the start of the other
ScanNames == {<<"1", ".", "j", "p", "g">>, <<"1", "2", ".", "j", "p", "g">>}

scanFile(dir, name, js) ==
    [path |-> (IF dir = <<>> THEN <<>> ELSE dir \o <<"/">>) \o name,
     content |-> "c1", mtime |-> 1, state |-> "ok",
     json |-> IF js THEN 2020001 ELSE 0, fdate |-> 0, exif |-> 0, cust |-> <<>>]

\* A tree of media files, some with a sidecar, before the scan.
ScanInit ==
    /\ \E n \in 1..MaxScanned :
         \E ds \in [1..n -> ScanDirs], ns \in [1..n -> ScanNames], js \in [1..n -> BOOLEAN] :
           /\ dk = [i \in 1..n |-> scanFile(ds[i], ns[i], js[i])]
           /\ \A i, j \in 1..n : i < j => walkLess(Split(dk[i].path), Split(dk[j].path))
    /\ pairs = <<>>
    /\ cacheFile = [state |-> "nopath", files |-> <<>>]
    /\ cache = EmptyMap
    /\ registry = <<>>
    /\ pairKey = <<>>
    /\ idx = 1
    /\ dphase = "scan"
    /\ run = 1
    /\ hashed = {}
    /\ firstRun = [done |-> FALSE]
    /\ MergeIdle
    /\ OrgIdle
    /\ ToolIdle
    /\ DateIdle

SpecScan == ScanInit /\ [][Scan]_vars

\* ------------------------------------------------- the external tool calls
\* the items of the batches considered
MaxToolBatch == 2

\* the items of a batch that WriteMetaBatch and BatchWriter.Write give to
\* the tool: writable metadata and an extension buildArgsForMeta supports
eligible(items) == {i \in 1..Len(items) : items[i].Writable /\ items[i].Supported}

\* WriteMetaToFile: nothing to do for an unsupported extension; an error
\* when the tool fails on the file
WriteMetaToFile(item) ==
    IF ~item.Supported THEN [err |-> FALSE, written |-> FALSE]
    ELSE [err |-> item.Bad, written |-> ~item.Bad]

\* WriteMetaBatch: one combined invocation; when it fails every item with
\* writable metadata is written on its own and the failures are counted
WriteMetaBatch(items, toolAvailable) ==
    LET el == eligible(items)
        combinedFails == \E i \in el : items[i].Bad
        retry == {i \in 1..Len(items) : items[i].Writable}
        failures == {i \in retry : WriteMetaToFile(items[i]).err}
        nothing == [combinedFailed |-> FALSE, retried |-> {}, written |-> {}]
    IN IF items = <<>> THEN [reported |-> "ok"] @@ nothing
       ELSE IF ~toolAvailable THEN [reported |-> "failed"] @@ nothing
       ELSE IF el = {} THEN [reported |-> "ok"] @@ nothing
       ELSE IF combinedFails
       THEN [combinedFailed |-> TRUE, retried |-> retry,
             written |-> {i \in retry : WriteMetaToFile(items[i]).written},
             reported |-> IF failures # {} THEN "failed" ELSE "ok"]
       ELSE [combinedFailed |-> FALSE, retried |-> {}, written |-> el, reported |-> "ok"]

\* BatchWriter.Write: the arguments of each eligible item are written to the
\* standard input of the running tool; brokenAt is the item at which writing
\* to the pipe fails (0: never). The tool's output is discarded, so an item
\* the tool fails on is not noticed.
BatchWriterWrite(items, brokenAt) ==
    LET el == eligible(items)
        sent == {i \in el : brokenAt \notin el \/ i < brokenAt}
    IN [combinedFailed |-> brokenAt \in el \/ \E i \in sent : items[i].Bad,
        retried |-> {},
        written |-> {i \in sent : ~items[i].Bad},
        reported |-> IF brokenAt \in el THEN "failed" ELSE "ok"]

\* the flush of the metadata goroutine of OrganizePhotos: a batch that is
\* not empty is given to writer.Write
ToolFlush ==
    /\ toolRun.call = "none"
    /\ toolRun.batch # <<>>
    /\ \E brokenAt \in 0..Len(toolRun.batch) :
         toolRun' = [call |-> "flush", batch |-> toolRun.batch]
                        @@ BatchWriterWrite(toolRun.batch, brokenAt)
    /\ UNCHANGED <<orgVars, dedupVars, dateVars>>

\* a call of WriteMetaBatch, with the tool installed or not
ToolWriteMetaBatch ==
    /\ toolRun.call = "none"
    /\ \E toolAvailable \in BOOLEAN :
         toolRun' = [call |-> "WriteMetaBatch", batch |-> toolRun.batch]
                        @@ WriteMetaBatch(toolRun.batch, toolAvailable)
    /\ UNCHANGED <<orgVars, dedupVars, dateVars>>

\* any batch: each item has writable metadata or not, an extension the tool
\* writes or not, and is a file the tool fails on or not
ToolInit ==
    /\ \E n \in 0..MaxToolBatch :
         \E wr \in [1..n -> BOOLEAN], su \in [1..n -> BOOLEAN], bad \in [1..n -> BOOLEAN] :
           toolRun = [call |-> "none",
                      batch |-> [i \in 1..n |-> [Rec |-> i, Writable |-> wr[i],
                                                 Supported |-> su[i], Bad |-> bad[i]]]]
    /\ OrgIdle
    /\ DedupIdle
    /\ MergeIdle
    /\ DateIdle

ToolNext ==
    \/ ToolFlush
    \/ ToolWriteMetaBatch

SpecTool == ToolInit /\ [][ToolNext]_vars

\* =============================================================== properties

\* C1: with dry-run off, no two records are copied to the same destination
\* path: a path obtained from uniquePath stays reserved for its record.
C1_NoSharedDestination ==
    \A c1 \in copies, c2 \in copies : c1[1] = c2[1] => c1[2] = c2[2]

\* C2: once a worker has recorded a fatal error, OrganizePhotos is never
\* stuck before it returns (some goroutine can always take a step), and
\* what it returns is that error.
C2_ReturnsAfterFatalError ==
    firstErr # NoErr =>
        /\ mainPc = "returned" \/ ENABLED OrgNext
        /\ mainPc = "returned" => result = firstErr

\* C3: a worker is never blocked for good on the handoff queue: it never
\* waits to send on a full queue whose reader does not exist (tool absent)
\* or has ended (the batch writer failed to start).
C3_WorkerNeverStuckOnHandoff ==
    \A w \in Workers :
        ~(wpc[w] = "meta" /\ Len(metaCh) >= metaCap /\ metaPc \in {"none", "done"})

\* C4: the records BuildRegistry returns, and the records MergeIdentical
\* returns for them, never contain two records with the same content hash
\* unless one of the two is marked hash-failed.
C4_NoSharedHash ==
    /\ dphase = "built" =>
         \A k1, k2 \in DOMAIN registry :
            (k1 # k2 /\ registry[k1].Hash = registry[k2].Hash)
                => (registry[k1].HashError \/ registry[k2].HashError)
    /\ mphase = "merged" =>
         \A i, j \in mresult :
            (i # j /\ heap[i].Hash = heap[j].Hash) => (heap[i].HashError \/ heap[j].HashError)

\* two readable files with the same content were folded into one record,
\* and the merge returned it
C4_Witness ==
    /\ mphase = "merged"
    /\ Len(pairKey) = 2
    /\ pairKey[1] # <<>>
    /\ pairKey[1] = pairKey[2]
    /\ Cardinality(mresult) = 1

\* C5: a file whose hashing fails is registered under the key made of its
\* path, which no other pair has; its record is flagged hash-failed and
\* keeps its path; GroupIdentical puts the record in a group of its own and
\* MergeIdentical returns it.
C5_HashFailedKeptApart ==
    /\ \A i \in 1..Len(pairKey) :
          fileAt(pairs[i].MediaPath).state = "unreadable" =>
             /\ pairKey[i] = nohashKey(pairs[i].MediaPath)
             /\ \A j \in 1..Len(pairKey) : j # i => pairKey[j] # pairKey[i]
             /\ pairKey[i] \in DOMAIN registry
             /\ registry[pairKey[i]].HashError
             /\ registry[pairKey[i]].SrcPath = pairs[i].MediaPath
    /\ mphase = "merged" =>
          /\ \A g \in mgroups : (\E k \in 1..Len(g) : heap[g[k]].HashError) => Len(g) = 1
          /\ \A id \in DOMAIN heap : heap[id].HashError => id \in mresult

\* two files of the same size could not be hashed, and the merge is done
C5_Witness ==
    /\ mphase = "merged"
    /\ Len(heap) = 2
    /\ heap[1].HashError
    /\ heap[2].HashError
    /\ heap[1].Size = heap[2].Size

\* C6: for the three identical files A.jpg (date in the name), B.jpg
\* (sidecar) and C.jpg under Trip, the pipeline yields one record with album
\* Trip dated by the sidecar at sidecar tier, and the output stage writes one
\* file into Trip.
C6_EndToEndScenario ==
    dk = ScenarioTree =>
        /\ mphase \in {"merged", "assigned", "output"} =>
              /\ Cardinality(mresult) = 1
              /\ \A id \in mresult :
                    /\ heap[id].Albums = {<<"T", "r", "i", "p">>}
                    /\ heap[id].TakenTime = 2020001
                    /\ heap[id].DateAccuracy = DateAccuracyJSON
        /\ (mainPc = "returned" /\ result = NoErr /\ ~cfg.dryRun
                /\ selected = << <<"T", "r", "i", "p">> >>) =>
              /\ Cardinality(outFiles) = 1
              /\ \A f \in outFiles : f.dir = <<"Albums", <<"T", "r", "i", "p">>>>

\* C7: BuildRegistry never crashes, whatever the state of the cache file.
C7_CacheNeverFatal == dphase # "panic"

\* C8: in a second run with the cache the first run saved, an unchanged tree
\* gives the same set of records, and no content hash is computed for a file
\* whose size and modification time are those of the first run.
C8_SecondRunIdempotent ==
    (run = 2 /\ dphase = "built" /\ firstRun.saved) =>
        /\ dk = firstRun.tree => Range(registry) = firstRun.records
        /\ \A i \in DOMAIN dk :
              (/\ sizeOf(dk[i].content) = sizeOf(firstRun.tree[i].content)
               /\ dk[i].mtime = firstRun.tree[i].mtime)
                  => dk[i].path \notin hashed

\* the second run on an unchanged tree with a readable file is over, the
\* cache of the first run was saved
C8_Witness ==
    /\ run = 2
    /\ dphase = "built"
    /\ firstRun.saved
    /\ dk = firstRun.tree
    /\ \E i \in DOMAIN dk : dk[i].state = "ok"
    /\ registry # <<>>

\* C9: the representative of a group of several records has the best date
\* accuracy of the group and, among the records of that accuracy, the
\* shortest source path.
C9_BestRepresentative ==
    mphase = "merged" =>
        \A g \in mgroups :
            Len(g) > 1 =>
                \A r \in mresult \cap Range(g), q \in Range(g) :
                    /\ heap[r].DateAccuracy <= heap[q].DateAccuracy
                    /\ heap[r].DateAccuracy = heap[q].DateAccuracy
                          => Len(heap[r].SrcPath) <= Len(heap[q].SrcPath)

\* C10: after the merge the representative of a group of several records has
\* the albums of all the records of the group, its own included.
C10_AlbumUnion ==
    mphase = "merged" =>
        \A g \in mgroups :
            Len(g) > 1 =>
                \A r \in mresult \cap Range(g) :
                    heap[r].Albums = UNION {heap0[q].Albums : q \in Range(g)}

\* C11: while and after BuildRegistry runs, the albums of each record are
\* exactly the non-empty album names of the pairs registered under the
\* record's key.
C11_AlbumsOfKey ==
    dphase \in {"loop", "built", "panic"} =>
        \A k \in DOMAIN registry :
            registry[k].Albums =
                {pairs[i].Album : i \in {j \in 1..Len(pairKey) :
                                            pairKey[j] = k /\ pairs[j].Album # <<>>}}

\* two pairs of two albums were registered under one key
C11_Witness ==
    /\ dphase = "built"
    /\ Len(pairKey) = 2
    /\ pairKey[1] # <<>>
    /\ pairKey[1] = pairKey[2]
    /\ pairs[1].Album # <<>>
    /\ pairs[2].Album # <<>>
    /\ pairs[1].Album # pairs[2].Album

\* C12: when a record has a sidecar time and a file time, the proposed and
\* the applied date is the file time at the filename tier exactly when the
\* file time is strictly earlier than the sidecar time and its year is
\* within 1990 .. current year + 1; otherwise it is the sidecar time at the
\* sidecar tier, also when the two times are equal.
C12_DatePrecedence ==
    \A id \in DOMAIN proposals :
        LET p == proposals[id]
            expected ==
                IF p.fileTime < p.jsonTime /\ yearOf(p.fileTime) \in 1990..(NowYear + 1)
                THEN [time |-> p.fileTime, tier |-> DateAccuracyFilename]
                ELSE [time |-> p.jsonTime, tier |-> DateAccuracyJSON]
        IN p.hasJSON /\ p.hasFile =>
             /\ p.proposed = expected.time
             /\ p.accuracy = expected.tier
             /\ mphase = "ready" =>
                  /\ heap[id].TakenTime = expected.time
                  /\ heap[id].DateAccuracy = expected.tier

\* the dates were applied to two records with both times: one whose file
\* time replaced a later sidecar time, one whose file time equals the
\* sidecar time
C12_Witness ==
    /\ mphase = "ready"
    /\ \E a, b \in DOMAIN proposals :
         /\ proposals[a].hasJSON /\ proposals[a].hasFile
         /\ proposals[a].fileTime < proposals[a].jsonTime
         /\ heap[a].DateAccuracy = DateAccuracyFilename
         /\ proposals[b].hasJSON /\ proposals[b].hasFile
         /\ proposals[b].fileTime = proposals[b].jsonTime
         /\ heap[b].DateAccuracy = DateAccuracyJSON

\* the tiers of the sources that yield a time for a record at resolution
\* time: the sidecar, the name under the patterns and exclusions in force,
\* the embedded tags
yieldingTiers(id) ==
    (IF proposals[id].hasJSON THEN {DateAccuracyJSON} ELSE {})
    \cup (IF proposals[id].hasFile THEN {DateAccuracyFilename} ELSE {})
    \cup (IF fileAt(heap[id].SrcPath).exif # 0 THEN {DateAccuracyExif} ELSE {})

bestTier(id) ==
    CHOOSE t \in yieldingTiers(id) \cup {DateAccuracyNone} :
        \A u \in yieldingTiers(id) \cup {DateAccuracyNone} : t <= u

\* C13 as stated: the tier of every record is the best-ranked tier among
\* the sources that yielded a time.
C13_BestTier ==
    \A id \in DOMAIN proposals :
        /\ proposals[id].accuracy = bestTier(id)
        /\ mphase = "ready" => heap[id].DateAccuracy = bestTier(id)

\* the sidecar and the name both yield a time and the file time, strictly
\* earlier and reasonable, replaces the sidecar time
overridden(id) ==
    /\ proposals[id].hasJSON
    /\ proposals[id].hasFile
    /\ proposals[id].fileTime < proposals[id].jsonTime
    /\ yearOf(proposals[id].fileTime) \in 1990..(NowYear + 1)

\* C13, amended: the tier of every record is the best-ranked tier among the
\* sources that yielded a time, except that it is the filename tier when
\* the file time replaces the sidecar time.
C13_BestTierUnlessOverridden ==
    \A id \in DOMAIN proposals :
        LET tier == IF overridden(id) THEN DateAccuracyFilename ELSE bestTier(id)
        IN /\ proposals[id].accuracy = tier
           /\ mphase = "ready" => heap[id].DateAccuracy = tier

\* the dates were applied to a record dated by its embedded tags only and
\* to a record whose file time replaced the sidecar time
C13_Witness ==
    /\ mphase = "ready"
    /\ \E a, b \in DOMAIN proposals :
         /\ yieldingTiers(a) = {DateAccuracyExif}
         /\ heap[a].DateAccuracy = DateAccuracyExif
         /\ {DateAccuracyJSON, DateAccuracyFilename} \subseteq yieldingTiers(b)
         /\ overridden(b)
         /\ heap[b].DateAccuracy = DateAccuracyFilename

\* the lists of custom patterns one run may hold
PatternLists ==
    UNION {[1..n -> {"p1", "p2"}] : n \in 0..MaxCustom}

\* C14: whatever the custom patterns, filename dating yields no time for a
\* file whose base name is excluded; in every round of the refinement loop
\* and after it the proposal and the tier of such a record are not from the
\* name.
C14_ExcludedNeverFilenameDated ==
    /\ \A i \in DOMAIN dk : \A c \in PatternLists :
         Base(dk[i].path) \in exclusions =>
             ~GuessDateFromFilenameWithCustomAndExclusions(dk[i].path, c, exclusions).ok
    /\ \A id \in DOMAIN proposals :
         Base(heap[id].SrcPath) \in exclusions =>
             /\ ~proposals[id].hasFile
             /\ proposals[id].accuracy # DateAccuracyFilename
             /\ heap[id].DateAccuracy # DateAccuracyFilename

\* a name was excluded in a round of the loop; a custom pattern in force
\* parses a date from it, and the dates were applied
C14_Witness ==
    /\ mphase = "ready"
    /\ <<"2", ".", "j", "p", "g">> \in exclusions
    /\ \E id \in DOMAIN heap :
         /\ Base(heap[id].SrcPath) = <<"2", ".", "j", "p", "g">>
         /\ guessWithPatterns(heap[id].SrcPath, custom).ok
         /\ heap[id].DateAccuracy = DateAccuracyNone

\* C16: when applyDatesWithReview returns a failure (the operator did not
\* type APPLY, or the pattern or exclusion files failed), no record's
\* capture time or tier has changed, the merge, the album assignment and the
\* output have not run, nothing was written to the output tree, and the run
\* takes no further step.
C16_ConfirmationGate ==
    mphase \in {"refused", "dateError"} =>
        /\ \A id \in DOMAIN heap :
             /\ heap[id].TakenTime = heap0[id].TakenTime
             /\ heap[id].DateAccuracy = heap0[id].DateAccuracy
        /\ mgroups = {}
        /\ mresult = {}
        /\ selected = <<>>
        /\ mainPc = "idle"
        /\ copies = {}
        /\ outDirs = {}
        /\ writes = <<>>
        /\ ~ENABLED PipeNext

\* the operator declined proposals that would have dated a record
C16_Witness ==
    /\ mphase = "refused"
    /\ heap = heap0
    /\ \E id \in DOMAIN heap :
         /\ proposals[id].accuracy # DateAccuracyNone
         /\ proposals[id].proposed # heap[id].TakenTime

\* C15: after AssignFinalAlbums the album assigned to a record is the first
\* name of the selection, in its order, that is among the record's
\* memberships, and it is empty when there is none or the selection is
\* empty; so it is empty or a membership, whatever an earlier call assigned.
C15_AlbumExclusivity ==
    mphase = "assigned" =>
        \A id \in mresult :
            LET hits == {i \in 1..Len(selected) : selected[i] \in heap[id].Albums}
                first == CHOOSE i \in hits : \A j \in hits : i <= j
            IN /\ heap[id].FinalAlbum = IF hits = {} THEN <<>> ELSE selected[first]
               /\ heap[id].FinalAlbum \in heap[id].Albums \cup {<<>>}

\* one record is a member of the two selected albums and has the first;
\* another had an album from an earlier call and has none now
C15_Witness ==
    /\ mphase = "assigned"
    /\ Len(selected) = 2
    /\ \E a, b \in mresult :
         /\ Range(selected) \subseteq heap[a].Albums
         /\ heap[a].FinalAlbum = selected[1]
         /\ heap0[b].FinalAlbum # <<>>
         /\ Range(selected) \cap heap[b].Albums = {}
         /\ heap[b].FinalAlbum = <<>>

\* C17: a dry run that returned without error has reported, for every
\* record, the destination the real run with one worker gives it, from the
\* same output tree and in the same order.
C17_DryRunEquivalence ==
    cfg.dryRun /\ mainPc = "returned" /\ result = NoErr /\ cfg.outRoot # "" =>
        \A i \in 1..Len(photos) : planned[i] = realRun(outFiles, photos)[i]

\* the output tree the call met
initialTree == (CHOOSE in \in OrgInputs : in.photos = photos).tree

\* C18: in a dry run the output tree stays as it was: no directory and no
\* file is created, nothing is queued for the metadata stage, the metadata
\* goroutine and the external tool are not started.
C18_DryRunWritesNothing ==
    cfg.dryRun /\ mainPc # "idle" =>
        /\ outFiles = initialTree
        /\ outDirs = {}
        /\ copies = {}
        /\ metaCh = <<>>
        /\ metaPc = "none"
        /\ batch = <<>>
        /\ writes = <<>>

\* a dry run with two workers and the tool available returned after it
\* reported a destination in an album folder
C18_Witness ==
    /\ cfg.dryRun
    /\ cfg.tool
    /\ cfg.workers = 2
    /\ mainPc = "returned"
    /\ result = NoErr
    /\ \E i \in 1..Len(photos) :
         /\ planned[i] # NoPath
         /\ planned[i].dir # <<"Library">>

\* C19: once cancellation is signalled the intake loop adds no record to
\* the work queue.
C19_NoEnqueueAfterCancel ==
    [][cancelled => Len(jobs') <= Len(jobs)]_vars

\* C20: the first error recorded is never replaced; cancellation is
\* signalled exactly when the first error is recorded; OrganizePhotos
\* returns the recorded error, and returns no error only if none was
\* recorded.
C20_FirstErrorWins ==
    /\ [](cancelled <=> firstErr # NoErr)
    /\ [](mainPc = "returned" /\ firstErr # NoErr => result = firstErr)
    /\ [](mainPc = "returned" /\ result = NoErr => firstErr = NoErr)
    /\ [][firstErr # NoErr => firstErr' = firstErr]_vars

\* two workers failed: the second created the file of its record and never
\* handed it on; the call returned the error of the first
C20_Witness ==
    /\ cfg.workers = 2
    /\ ~cfg.tool
    /\ mainPc = "returned"
    /\ result = firstErr
    /\ \E w, v \in Workers :
         /\ w # v
         /\ wpc[w] = "done" /\ wpc[v] = "done"
         /\ wcur[w] # wcur[v]
         /\ firstErr \in {<<"path", wcur[w]>>, <<"copy", wcur[w]>>, <<"mkdir", wcur[w]>>}
         /\ \E path \in outFiles : <<path, wcur[v]>> \in copies
         /\ \A k \in 1..Len(metaCh) : metaCh[k].Rec # wcur[v]

\* the records handed to the metadata stage and still in the queue, in the
\* batch or in a batch given to the tool
handedOn ==
    {metaCh[k].Rec : k \in 1..Len(metaCh)}
        \cup {batch[k].Rec : k \in 1..Len(batch)}
        \cup UNION {{writes[b][k].Rec : k \in 1..Len(writes[b])} : b \in 1..Len(writes)}

\* C21: an item enters the handoff queue only from a worker whose copyFile
\* of that record returned without error, with the path it copied to; a
\* worker reaches the handoff only from a copy that recorded no error; the
\* record of a worker that failed in or before its copy, or that still
\* computes or copies, is not handed on.
C21_MetaAfterCopy ==
    /\ [][Len(metaCh') > Len(metaCh) =>
            \E w \in Workers :
                /\ wpc[w] = "meta"
                /\ metaCh'[Len(metaCh')].Rec = wcur[w]
                /\ metaCh'[Len(metaCh')].Path = wdst[w]
                /\ <<wdst[w], wcur[w]>> \in copies]_vars
    /\ [][\A w \in Workers :
            wpc'[w] = "meta" /\ wpc[w] # "meta" =>
                /\ wpc[w] = "copy"
                /\ firstErr' = firstErr
                /\ <<wdst[w], wcur[w]>> \in copies']_vars
    /\ [](\A r \in 1..Len(photos) :
            firstErr \in {<<"copy", r>>, <<"path", r>>, <<"mkdir", r>>} => r \notin handedOn)
    /\ [](\A w \in Workers : wpc[w] \in {"mkdir", "path", "copy"} => wcur[w] \notin handedOn)

\* the copy of one record failed after the copy of another was handed on
C21_Witness ==
    /\ \E r \in 1..Len(photos) : firstErr = <<"copy", r>>
    /\ metaCh # <<>>
    /\ \E path \in outFiles : <<path, metaCh[1].Rec>> \in copies

\* C22: when the combined invocation for a batch of the output pipeline
\* fails, every item of the batch with writable metadata is retried on its
\* own, the batch is reported as failed exactly when an item fails on its
\* own, and the items that succeed on their own are written.
C22_BatchFallback ==
    toolRun.call = "flush" /\ toolRun.combinedFailed =>
        LET items == toolRun.batch
            writable == {i \in 1..Len(items) : items[i].Writable}
        IN /\ toolRun.retried = writable
           /\ toolRun.reported = "failed" <=> \E i \in writable : WriteMetaToFile(items[i]).err
           /\ \A i \in writable : WriteMetaToFile(items[i]).written => i \in toolRun.written

\* C23: a step at the album prompt never ends the run: a selection is
\* accepted, or the operator is asked again with the selection, the custom
\* patterns and the exclusions as they were.
C23_RejectedInputReprompts ==
    [][mphase = "merged" =>
         /\ mphase' \in {"merged", "assigned"}
         /\ mphase' = "merged" => selected' = selected
         /\ custom' = custom
         /\ exclusions' = exclusions]_vars

\* C24: after the scan a media file directly under the root, directly under
\* the wrapper folder, or under the container of uploads has no album.
C24_NoAlbumAtTopLevel ==
    \A k \in 1..Len(pairs) :
        LET parts == Split(pairs[k].MediaPath)
        IN \/ Len(parts) = 1
           \/ Len(parts) = 2 /\ parts[1] = GooglePhotos
           \/ Len(parts) > 1 /\ HasPrefix(parts[1], PhotosFrom)
           \/ Len(parts) > 2 /\ parts[1] = GooglePhotos /\ HasPrefix(parts[2], PhotosFrom)
           => pairs[k].Album = <<>>

\* the sidecars the prefix fallback may return for a media file: those of
\* its directory whose title has the extension of the media file and, without
\* it, is a prefix of the media file's name
prefixTitled(path) ==
    LET ext == ToLower(Ext(Base(path)))
    IN {i \in Range(sidecars(dk)) :
          /\ Dir(dk[i].path) = Dir(path)
          /\ ext # <<>>
          /\ HasSuffix(ToLower(Base(dk[i].path)), ext)
          /\ HasPrefix(ToLower(Base(path)), TrimSuffix(ToLower(Base(dk[i].path)), ext))}

\* C29: after the scan, for every media file of the tree the prefix fallback
\* gives a sidecar of the file's directory whose title has the file's
\* extension and, without it, is a prefix of the file's name, the one with
\* the shortest title; it gives none when there is no such sidecar.
C29_ShortestPrefixTitle ==
    dphase \notin {"idle", "scan"} =>
        \A f \in DOMAIN dk :
            LET fit == prefixTitled(dk[f].path)
                got == pickPrefixCandidate(dk, dk[f].path)
            IN IF fit = {} THEN got = <<>>
               ELSE \E i \in fit :
                      /\ got = sidecarPath(dk[i].path)
                      /\ \A j \in fit : Len(dk[i].path) <= Len(dk[j].path)

\* the names uniquePath may give to a file, by rank: 0 the original name, 1
\* the name with the start of the hash, 1 + i the name with the number i
rankedName(filename, hash, k) ==
    LET ext == Ext(filename)
        stem == SubSeq(filename, 1, Len(filename) - Len(ext))
        part == IF Len(hash) > 8 THEN SubSeq(hash, 1, 8) ELSE hash
    IN IF k = 0 THEN filename
       ELSE IF k = 1 THEN stem \o <<"-">> \o part \o ext
       ELSE stem \o <<"-">> \o Itoa(k - 1) \o ext

\* the ranks uniquePath considers: the hash form only with a hash
ranked(hash, k) == k = 1 => hash # <<>>

\* the path of rank k is free in the output tree
freeRank(p, k) == [dir |-> destDir(p), name |-> rankedName(destBase(p), p.Hash, k)] \notin outFiles

\* a worker leaves the computation of its destination path with an error
pathFails(w) == wpc[w] = "path" /\ wpc'[w] = "done"

\* a worker leaves the computation of its destination path with a path, and
\* it is the free path of the lowest rank
pathIsFirstFree(w) ==
    wpc[w] = "path" /\ wpc'[w] \in {"copy", "report"} =>
        LET p == photos[wcur[w]]
        IN \E k \in 0..(Cardinality(outFiles) + 1) :
             /\ ranked(p.Hash, k)
             /\ freeRank(p, k)
             /\ \A j \in 0..(k - 1) : ranked(p.Hash, j) => ~freeRank(p, j)
             /\ wdst'[w] = [dir |-> destDir(p), name |-> rankedName(destBase(p), p.Hash, k)]

recsOf(items) == {items[k].Rec : k \in 1..Len(items)}

\* the records of the batches issued to the tool
issued(ws) == UNION {recsOf(ws[b]) : b \in 1..Len(ws)}

\* the places of a record in the open batch and in the batches issued
placesOf(r) ==
    {<<0, k>> : k \in {k \in 1..Len(batch) : batch[k].Rec = r}}
        \cup {<<b, k>> \in (1..Len(writes)) \X (1..MaxPhotos) :
                 k <= Len(writes[b]) /\ writes[b][k].Rec = r}

\* C26: every batch issued has between one item and the configured number
\* of items, the open batch fewer; batches hold only items with writable
\* metadata, each at most once; an item received with writable metadata goes
\* to the open batch, which is issued at once when it is full, an item
\* without leaves the batches as they are; no item leaves the batches and an
\* issued batch never changes; when OrganizePhotos has returned the open
\* batch is empty and the goroutine is not in its loop.
C26_BatchingStage ==
    /\ [](/\ cfg.exifBatch >= 1
          /\ \A b \in 1..Len(writes) : Len(writes[b]) >= 1 /\ Len(writes[b]) <= cfg.exifBatch
          /\ Len(batch) < cfg.exifBatch
          /\ \A k \in 1..Len(batch) : batch[k].Writable
          /\ \A b \in 1..Len(writes) : \A k \in 1..Len(writes[b]) : writes[b][k].Writable
          /\ \A r \in 1..Len(photos) : Cardinality(placesOf(r)) <= 1
          /\ mainPc = "returned" => batch = <<>> /\ metaPc # "loop")
    /\ [][/\ Len(writes') >= Len(writes)
          /\ SubSeq(writes', 1, Len(writes)) = writes
          /\ recsOf(batch) \subseteq recsOf(batch') \cup issued(writes')
          /\ metaCh # <<>> /\ metaCh' = Tail(metaCh) =>
               LET item == Head(metaCh)
               IN IF item.Writable
                  THEN IF Len(batch) + 1 >= cfg.exifBatch
                       THEN writes' = Append(writes, Append(batch, item)) /\ batch' = <<>>
                       ELSE batch' = Append(batch, item) /\ writes' = writes
                  ELSE batch' = batch /\ writes' = writes]_vars

\* OrganizePhotos has returned after a full batch of two items and a last
\* batch of one item were issued, and an item without writable metadata was
\* received and is in no batch
C26_Witness ==
    /\ mainPc = "returned"
    /\ cfg.exifBatch = 2
    /\ \E i, j \in 1..Len(writes) : Len(writes[i]) = 2 /\ Len(writes[j]) = 1 /\ j = Len(writes)
    /\ \E <<path, r>> \in copies : ~photos[r].Writable /\ r \notin issued(writes)

\* C27: the refinement loop is at its prompt only while some record has no
\* date from any source, and a round that changes the patterns leaves the
\* proposals as resolution gives them for all records.
C27_LoopOnlyWhileUnknown ==
    mphase = "unknowns" =>
        /\ \E id \in DOMAIN proposals : proposals[id].accuracy = DateAccuracyNone
        /\ proposals = collectDateProposals(heap, custom, exclusions)

\* C28: for a record whose name is not excluded and is matched by a custom
\* pattern, the file time of its proposal is what the first matching
\* pattern, in the order of the list, parses from the name, and the record
\* has no file time when that pattern does not parse.
C28_FirstMatchDetermines ==
    \A id \in DOMAIN proposals :
        LET path == heap[id].SrcPath
            ms == {i \in 1..Len(custom) : custom[i] \in matching(path)}
            first == CHOOSE i \in ms : \A j \in ms : i <= j
        IN ms # {} /\ ~isExcluded(path, exclusions) =>
             /\ proposals[id].fileTime = customDate(path, custom[first])
             /\ proposals[id].hasFile <=> customDate(path, custom[first]) # 0

\* the first pair registered under a key
firstPairOf(k) == CHOOSE j \in 1..Len(pairKey) : pairKey[j] = k /\ \A i \in 1..(j - 1) : pairKey[i] # k

\* C30: while and after BuildRegistry runs each record has the media path
\* and the sidecar path of the first pair registered under its key; a step
\* of the loop leaves every field of an existing record but its albums and
\* its size as it is; and a proposal has a sidecar time only when the
\* record's own sidecar path yields one.
C30_FirstPairKept ==
    /\ [](dphase \in {"loop", "built", "panic"} =>
            \A k \in DOMAIN registry :
                /\ registry[k].SrcPath = pairs[firstPairOf(k)].MediaPath
                /\ registry[k].JsonPath = pairs[firstPairOf(k)].JsonPath)
    /\ [][dphase = "loop" /\ dphase' = "loop" =>
            \A k \in DOMAIN registry :
                /\ k \in DOMAIN registry'
                /\ registry'[k] = [registry[k] EXCEPT !.Albums = registry'[k].Albums,
                                                      !.Size = registry'[k].Size]
                /\ registry[k].Albums \subseteq registry'[k].Albums]_vars
    /\ [](mphase \in {"unknowns", "review"} =>
            \A id \in DOMAIN proposals :
                proposals[id].hasJSON => ParseJSONMeta(heap[id].JsonPath).has)

\* two pairs were registered under one key, the first without a sidecar, the
\* second with one; the record has no sidecar and its proposal no sidecar
\* time
C30_Witness ==
    /\ dphase = "built"
    /\ Len(pairKey) = 2
    /\ pairKey[1] # <<>>
    /\ pairKey[1] = pairKey[2]
    /\ pairs[1].JsonPath = <<>>
    /\ pairs[2].JsonPath # <<>>
    /\ registry[pairKey[1]].JsonPath = <<>>
    /\ mphase = "review"
    /\ Len(proposals) = 1
    /\ ~proposals[1].hasJSON

====
